---------------------------- MODULE Spec2Model ----------------------------
(***************************************************************************)
(* Model of deepclaw's voice_agent_server.py: the per-call media bridges   *)
(* (twilio_media_websocket, telnyx_media_websocket), the process-wide      *)
(* session registry (_active_sessions, _active_call_context,               *)
(* _outbound_call_contexts) and the completion proxy's registry lookup.    *)
(*                                                                         *)
(* Scheduling is asyncio's: one thread, tasks interleave only at an await. *)
(* Every action below is the code between two suspension points of one     *)
(* coroutine, or one event of a peer (the telephony platform, the speech   *)
(* agent).                                                                 *)
(***************************************************************************)
EXTENDS Integers, Sequences, FiniteSets, TLC

(***************************************************************************)
(* Bounds of the model.                                                    *)
(***************************************************************************)
\* audio frames one call's telephony socket delivers while Streaming
MaxMedia == 2
\* audio frames and barge-in events one call's speech agent delivers
MaxAgent == 2
\* lines the backend sends in one streamed answer
MaxLines == 2
\* media events one call's telephony socket delivers before the start event
MaxEarly == 1

\* the call slots: at most two bridges are alive at the same time; a slot is
\* taken again by a new connection once its handler has returned
Calls == {1, 2}

(***************************************************************************)
(* Values.                                                                 *)
(***************************************************************************)
\* None, for a local that holds a string
None == "None"
\* a dict of strings has no such key
Absent == "absent"
\* None, for a local that holds a session key; a registry key that is not set
NoKey == << >>
\* None, for a local that holds bytes
NoChunk == << >>
\* None, for a local that holds a message
NoMessage == [event |-> "None"]

OWNER_PHONE == "+15550100"
Hosts == {"a.example"}
StreamSids == {"MZ1"}
CallSids == {"CA1"}
Contexts == {"", "remind about the dentist"}

\* audio frames: byte sequences (the two frames of the end-to-end scenario)
Frames == {<<1, 2>>, <<3, 4>>}

(***************************************************************************)
(* base64, as the bridges use it: text is a sequence of alphabet indices   *)
(* 0..63, with Pad for "=".                                                *)
(***************************************************************************)
Pad == 64

b64encode3(g) ==
    IF Len(g) = 3 THEN
        << g[1] \div 4,
           (g[1] % 4) * 16 + (g[2] \div 16),
           (g[2] % 16) * 4 + (g[3] \div 64),
           g[3] % 64 >>
    ELSE IF Len(g) = 2 THEN
        << g[1] \div 4,
           (g[1] % 4) * 16 + (g[2] \div 16),
           (g[2] % 16) * 4,
           Pad >>
    ELSE
        << g[1] \div 4, (g[1] % 4) * 16, Pad, Pad >>

RECURSIVE b64encode(_)
b64encode(bytes) ==
    IF Len(bytes) = 0 THEN << >>
    ELSE IF Len(bytes) <= 3 THEN b64encode3(bytes)
    ELSE b64encode3(SubSeq(bytes, 1, 3)) \o b64encode(SubSeq(bytes, 4, Len(bytes)))

B64Error == <<"binascii.Error">>

b64decode4(q) ==
    IF q[3] = Pad THEN << q[1] * 4 + (q[2] \div 16) >>
    ELSE IF q[4] = Pad THEN
        << q[1] * 4 + (q[2] \div 16), (q[2] % 16) * 16 + (q[3] \div 4) >>
    ELSE
        << q[1] * 4 + (q[2] \div 16),
           (q[2] % 16) * 16 + (q[3] \div 4),
           (q[3] % 4) * 64 + q[4] >>

RECURSIVE b64decode(_)
b64decode(text) ==
    IF Len(text) = 0 THEN << >>
    ELSE IF Len(text) < 4 THEN B64Error
    ELSE LET rest == b64decode(SubSeq(text, 5, Len(text)))
         IN  IF rest = B64Error THEN B64Error
             ELSE b64decode4(SubSeq(text, 1, 4)) \o rest

\* a payload whose length is not a multiple of four: b64decode raises
BadPayload == <<16>>
\* the payloads a media event may carry
Payloads == {b64encode(f) : f \in Frames} \cup {<< >>, BadPayload}

(***************************************************************************)
(* strip_markdown. A text is a sequence of characters; each re.sub is a    *)
(* left-to-right scan that replaces the leftmost match and goes on after   *)
(* it. Every pattern of strip_markdown matches at least one character.     *)
(***************************************************************************)
Whitespace == {" ", "\n", "\t"}
Digits == {"0", "1", "2", "3", "4", "5", "6", "7", "8", "9"}
\* one character of the emoji ranges of the last-but-one substitution
Emojis == {"EMOJI"}
\* the backtick is written "BACKTICK"

\* the index after the longest run of characters of S that starts at i
RunEnd(text, i, S) ==
    CHOOSE j \in i..(Len(text) + 1) :
        /\ \A k \in i..(j - 1) : text[k] \in S
        /\ (j = Len(text) + 1 \/ text[j] \notin S)

\* the index after the longest run of characters outside S that starts at i
RunEndNot(text, i, S) ==
    CHOOSE j \in i..(Len(text) + 1) :
        /\ \A k \in i..(j - 1) : text[k] \notin S
        /\ (j = Len(text) + 1 \/ text[j] \in S)

\* the literal lit stands at index i
At(text, i, lit) ==
    /\ i + Len(lit) - 1 <= Len(text)
    /\ SubSeq(text, i, i + Len(lit) - 1) = lit

\* ^ under re.MULTILINE
LineStart(text, i) == i = 1 \/ text[i - 1] = "\n"

\* A match is [end |-> index after the match, repl |-> its replacement];
\* end = 0 when the pattern does not match at i.
NoMatch == [end |-> 0, repl |-> << >>]

\* open ([^stop]+) close  ->  \1
Delimited(text, i, open, stop, close) ==
    LET s == i + Len(open)
        e == RunEndNot(text, s, stop)
    IN  IF At(text, i, open) /\ e > s /\ At(text, e, close)
        THEN [end |-> e + Len(close), repl |-> SubSeq(text, s, e - 1)]
        ELSE NoMatch

\* a fence of three backticks, lazily anything, a fence  ->  ''
CodeBlock(text, i) ==
    LET fence == <<"BACKTICK", "BACKTICK", "BACKTICK">>
        closes == {j \in (i + 3)..Len(text) : At(text, j, fence)}
    IN  IF At(text, i, fence) /\ closes # {}
        THEN [end |-> 3 + CHOOSE j \in closes : \A k \in closes : j <= k,
              repl |-> << >>]
        ELSE NoMatch

\* \[([^\]]+)\]\([^)]+\)  ->  \1
Link(text, i) ==
    LET e == RunEndNot(text, i + 1, {"]"})
        f == RunEndNot(text, e + 2, {")"})
    IN  IF /\ At(text, i, <<"[">>) /\ e > i + 1 /\ At(text, e, <<"]", "(">>)
           /\ f > e + 2 /\ f <= Len(text)
        THEN [end |-> f + 1, repl |-> SubSeq(text, i + 1, e - 1)]
        ELSE NoMatch

\* !\[([^\]]*)\]\([^)]+\)  ->  ''
Image(text, i) ==
    LET e == RunEndNot(text, i + 2, {"]"})
        f == RunEndNot(text, e + 2, {")"})
    IN  IF /\ At(text, i, <<"!", "[">>) /\ At(text, e, <<"]", "(">>)
           /\ f > e + 2 /\ f <= Len(text)
        THEN [end |-> f + 1, repl |-> << >>]
        ELSE NoMatch

\* ^#{1,6}\s+  ->  ''
Header(text, i) ==
    LET h == RunEnd(text, i, {"#"})
        w == RunEnd(text, h, Whitespace)
    IN  IF LineStart(text, i) /\ h - i \in 1..6 /\ w > h
        THEN [end |-> w, repl |-> << >>]
        ELSE NoMatch

\* ^\s*[marks]\s+  ->  ''   (bullets: - * +, blockquotes: >)
LineMark(text, i, marks) ==
    LET s == RunEnd(text, i, Whitespace)
        w == RunEnd(text, s + 1, Whitespace)
    IN  IF /\ LineStart(text, i) /\ s <= Len(text) /\ text[s] \in marks
           /\ w > s + 1
        THEN [end |-> w, repl |-> << >>]
        ELSE NoMatch

\* ^\s*\d+\.\s+  ->  ''
Numbered(text, i) ==
    LET s == RunEnd(text, i, Whitespace)
        d == RunEnd(text, s, Digits)
        w == RunEnd(text, d + 1, Whitespace)
    IN  IF /\ LineStart(text, i) /\ d > s /\ At(text, d, <<".">>) /\ w > d + 1
        THEN [end |-> w, repl |-> << >>]
        ELSE NoMatch

\* ^[-*_]{3,}\s*$  ->  ''   ($ stands at the end and before each newline; the
\* greedy \s* gives back characters until $ matches)
Rule(text, i) ==
    LET r == RunEnd(text, i, {"-", "*", "_"})
        w == RunEnd(text, r, Whitespace)
        stops == {p \in r..w : p = Len(text) + 1 \/ (p < w /\ text[p] = "\n")}
    IN  IF LineStart(text, i) /\ r - i >= 3 /\ stops # {}
        THEN [end |-> CHOOSE p \in stops : \A q \in stops : q <= p,
              repl |-> << >>]
        ELSE NoMatch

\* [S]+  ->  repl
Run(text, i, S, repl) ==
    LET e == RunEnd(text, i, S)
    IN  IF e > i THEN [end |-> e, repl |-> repl] ELSE NoMatch

\* the patterns of strip_markdown, in the order of its substitutions
Patterns == 1..15
Match(p, text, i) ==
    CASE p = 1 -> CodeBlock(text, i)
      [] p = 2 -> Delimited(text, i, <<"BACKTICK">>, {"BACKTICK"}, <<"BACKTICK">>)
      [] p = 3 -> Delimited(text, i, <<"*", "*">>, {"*"}, <<"*", "*">>)
      [] p = 4 -> Delimited(text, i, <<"*">>, {"*"}, <<"*">>)
      [] p = 5 -> Delimited(text, i, <<"_", "_">>, {"_"}, <<"_", "_">>)
      [] p = 6 -> Delimited(text, i, <<"_">>, {"_"}, <<"_">>)
      [] p = 7 -> Header(text, i)
      [] p = 8 -> LineMark(text, i, {"-", "*", "+"})
      [] p = 9 -> Numbered(text, i)
      [] p = 10 -> Link(text, i)
      [] p = 11 -> Image(text, i)
      [] p = 12 -> Rule(text, i)
      [] p = 13 -> LineMark(text, i, {">"})
      [] p = 14 -> Run(text, i, Emojis, << >>)
      [] p = 15 -> Run(text, i, {"\n"}, <<" ">>)

\* re.sub of pattern p on text from index i on
RECURSIVE re_sub(_, _, _)
re_sub(p, text, i) ==
    IF i > Len(text) THEN << >>
    ELSE LET m == Match(p, text, i)
         IN  IF m.end = 0 THEN <<text[i]>> \o re_sub(p, text, i + 1)
             ELSE m.repl \o re_sub(p, text, m.end)

RECURSIVE substitutions(_, _)
substitutions(p, text) ==
    IF p > 15 THEN text ELSE substitutions(p + 1, re_sub(p, text, 1))

strip_markdown(text) == substitutions(1, text)

\* the texts strip_markdown is applied to
MaxText == 4
Alphabet == {"#", "*", "_", " ", "\n", "a"}
Texts == UNION {[1..n -> Alphabet] : n \in 0..MaxText}

(***************************************************************************)
(* resolve_voice. A str is a sequence of characters.                       *)
(***************************************************************************)
\* VOICE_CATALOG, in the order of the dict (name: model, gender, accent)
VOICE_CATALOG == <<
    [name |-> <<"t", "h", "a", "l", "i", "a">>,
     model |-> <<"a", "u", "r", "a", "-", "2", "-", "t", "h", "a", "l", "i", "a", "-", "e", "n">>,
     gender |-> "female", accent |-> <<"A", "m", "e", "r", "i", "c", "a", "n">>],
    [name |-> <<"o", "r", "i", "o", "n">>,
     model |-> <<"a", "u", "r", "a", "-", "2", "-", "o", "r", "i", "o", "n", "-", "e", "n">>,
     gender |-> "male", accent |-> <<"A", "m", "e", "r", "i", "c", "a", "n">>],
    [name |-> <<"a", "p", "o", "l", "l", "o">>,
     model |-> <<"a", "u", "r", "a", "-", "2", "-", "a", "p", "o", "l", "l", "o", "-", "e", "n">>,
     gender |-> "male", accent |-> <<"A", "m", "e", "r", "i", "c", "a", "n">>],
    [name |-> <<"a", "t", "h", "e", "n", "a">>,
     model |-> <<"a", "u", "r", "a", "-", "2", "-", "a", "t", "h", "e", "n", "a", "-", "e", "n">>,
     gender |-> "female", accent |-> <<"A", "m", "e", "r", "i", "c", "a", "n">>],
    [name |-> <<"l", "u", "n", "a">>,
     model |-> <<"a", "u", "r", "a", "-", "2", "-", "l", "u", "n", "a", "-", "e", "n">>,
     gender |-> "female", accent |-> <<"A", "m", "e", "r", "i", "c", "a", "n">>],
    [name |-> <<"z", "e", "u", "s">>,
     model |-> <<"a", "u", "r", "a", "-", "2", "-", "z", "e", "u", "s", "-", "e", "n">>,
     gender |-> "male", accent |-> <<"A", "m", "e", "r", "i", "c", "a", "n">>],
    [name |-> <<"d", "r", "a", "c", "o">>,
     model |-> <<"a", "u", "r", "a", "-", "2", "-", "d", "r", "a", "c", "o", "-", "e", "n">>,
     gender |-> "male", accent |-> <<"B", "r", "i", "t", "i", "s", "h">>],
    [name |-> <<"p", "a", "n", "d", "o", "r", "a">>,
     model |-> <<"a", "u", "r", "a", "-", "2", "-", "p", "a", "n", "d", "o", "r", "a", "-", "e", "n">>,
     gender |-> "female", accent |-> <<"B", "r", "i", "t", "i", "s", "h">>],
    [name |-> <<"h", "y", "p", "e", "r", "i", "o", "n">>,
     model |-> <<"a", "u", "r", "a", "-", "2", "-", "h", "y", "p", "e", "r", "i", "o", "n", "-", "e", "n">>,
     gender |-> "male", accent |-> <<"A", "u", "s", "t", "r", "a", "l", "i", "a", "n">>],
    [name |-> <<"e", "s", "t", "r", "e", "l", "l", "a">>,
     model |-> <<"a", "u", "r", "a", "-", "2", "-", "e", "s", "t", "r", "e", "l", "l", "a", "-", "e", "s">>,
     gender |-> "female", accent |-> <<"M", "e", "x", "i", "c", "a", "n">>],
    [name |-> <<"j", "a", "v", "i", "e", "r">>,
     model |-> <<"a", "u", "r", "a", "-", "2", "-", "j", "a", "v", "i", "e", "r", "-", "e", "s">>,
     gender |-> "male", accent |-> <<"M", "e", "x", "i", "c", "a", "n">>],
    [name |-> <<"a", "l", "v", "a", "r", "o">>,
     model |-> <<"a", "u", "r", "a", "-", "2", "-", "a", "l", "v", "a", "r", "o", "-", "e", "s">>,
     gender |-> "male", accent |-> <<"S", "p", "a", "i", "n">>],
    [name |-> <<"c", "e", "l", "e", "s", "t", "e">>,
     model |-> <<"a", "u", "r", "a", "-", "2", "-", "c", "e", "l", "e", "s", "t", "e", "-", "e", "s">>,
     gender |-> "female", accent |-> <<"C", "o", "l", "o", "m", "b", "i", "a", "n">>],
    [name |-> <<"f", "a", "b", "i", "a", "n">>,
     model |-> <<"a", "u", "r", "a", "-", "2", "-", "f", "a", "b", "i", "a", "n", "-", "d", "e">>,
     gender |-> "male", accent |-> <<"G", "e", "r", "m", "a", "n">>],
    [name |-> <<"a", "u", "r", "e", "l", "i", "a">>,
     model |-> <<"a", "u", "r", "a", "-", "2", "-", "a", "u", "r", "e", "l", "i", "a", "-", "d", "e">>,
     gender |-> "female", accent |-> <<"G", "e", "r", "m", "a", "n">>],
    [name |-> <<"l", "a", "r", "a">>,
     model |-> <<"a", "u", "r", "a", "-", "2", "-", "l", "a", "r", "a", "-", "d", "e">>,
     gender |-> "female", accent |-> <<"G", "e", "r", "m", "a", "n">>],
    [name |-> <<"h", "e", "c", "t", "o", "r">>,
     model |-> <<"a", "u", "r", "a", "-", "2", "-", "h", "e", "c", "t", "o", "r", "-", "f", "r">>,
     gender |-> "male", accent |-> <<"F", "r", "e", "n", "c", "h">>],
    [name |-> <<"a", "g", "a", "t", "h", "e">>,
     model |-> <<"a", "u", "r", "a", "-", "2", "-", "a", "g", "a", "t", "h", "e", "-", "f", "r">>,
     gender |-> "female", accent |-> <<"F", "r", "e", "n", "c", "h">>],
    [name |-> <<"c", "e", "s", "a", "r", "e">>,
     model |-> <<"a", "u", "r", "a", "-", "2", "-", "c", "e", "s", "a", "r", "e", "-", "i", "t">>,
     gender |-> "male", accent |-> <<"I", "t", "a", "l", "i", "a", "n">>],
    [name |-> <<"l", "i", "v", "i", "a">>,
     model |-> <<"a", "u", "r", "a", "-", "2", "-", "l", "i", "v", "i", "a", "-", "i", "t">>,
     gender |-> "female", accent |-> <<"I", "t", "a", "l", "i", "a", "n">>],
    [name |-> <<"l", "a", "r", "s">>,
     model |-> <<"a", "u", "r", "a", "-", "2", "-", "l", "a", "r", "s", "-", "n", "l">>,
     gender |-> "male", accent |-> <<"D", "u", "t", "c", "h">>],
    [name |-> <<"d", "a", "p", "h", "n", "e">>,
     model |-> <<"a", "u", "r", "a", "-", "2", "-", "d", "a", "p", "h", "n", "e", "-", "n", "l">>,
     gender |-> "female", accent |-> <<"D", "u", "t", "c", "h">>],
    [name |-> <<"e", "b", "i", "s", "u">>,
     model |-> <<"a", "u", "r", "a", "-", "2", "-", "e", "b", "i", "s", "u", "-", "j", "a">>,
     gender |-> "male", accent |-> <<"J", "a", "p", "a", "n", "e", "s", "e">>],
    [name |-> <<"i", "z", "a", "n", "a", "m", "i">>,
     model |-> <<"a", "u", "r", "a", "-", "2", "-", "i", "z", "a", "n", "a", "m", "i", "-", "j", "a">>,
     gender |-> "female", accent |-> <<"J", "a", "p", "a", "n", "e", "s", "e">>]
>>

DEEPGRAM_TTS_MODEL == <<"a", "u", "r", "a", "-", "2", "-", "t", "h", "a", "l", "i", "a", "-", "e", "n">>

\* str.lower()
LowerCase ==
    "A" :> "a" @@ "B" :> "b" @@ "C" :> "c" @@ "D" :> "d" @@ "E" :> "e" @@ "F" :> "f" @@ "G" :> "g" @@ "H" :> "h" @@ "I" :> "i" @@ "J" :> "j" @@ "K" :> "k" @@ "L" :> "l" @@ "M" :> "m" @@
    "N" :> "n" @@ "O" :> "o" @@ "P" :> "p" @@ "Q" :> "q" @@ "R" :> "r" @@ "S" :> "s" @@ "T" :> "t" @@ "U" :> "u" @@ "V" :> "v" @@ "W" :> "w" @@ "X" :> "x" @@ "Y" :> "y" @@ "Z" :> "z"
lower(s) ==
    [i \in 1..Len(s) |-> IF s[i] \in DOMAIN LowerCase THEN LowerCase[s[i]]
                         ELSE s[i]]

\* str.strip()
str_strip(s) ==
    IF \A i \in 1..Len(s) : s[i] \in Whitespace THEN << >>
    ELSE LET first == CHOOSE i \in 1..Len(s) :
                         s[i] \notin Whitespace
                         /\ \A k \in 1..(i - 1) : s[k] \in Whitespace
             last == CHOOSE i \in 1..Len(s) :
                         s[i] \notin Whitespace
                         /\ \A k \in (i + 1)..Len(s) : s[k] \in Whitespace
         IN  SubSeq(s, first, last)

\* kw in q: kw stands at some index of q
in(kw, q) ==
    kw = << >> \/ \E i \in 1..(Len(q) - Len(kw) + 1) : q[i] = kw[1] /\ At(q, i, kw)

\* the accent keywords of the fuzzy score
AccentKeywords == {
    <<"a", "m", "e", "r", "i", "c", "a", "n">>,
    <<"b", "r", "i", "t", "i", "s", "h">>,
    <<"a", "u", "s", "t", "r", "a", "l", "i", "a", "n">>,
    <<"m", "e", "x", "i", "c", "a", "n">>,
    <<"s", "p", "a", "i", "n">>,
    <<"c", "o", "l", "o", "m", "b", "i", "a", "n">>,
    <<"g", "e", "r", "m", "a", "n">>,
    <<"f", "r", "e", "n", "c", "h">>,
    <<"i", "t", "a", "l", "i", "a", "n">>,
    <<"d", "u", "t", "c", "h">>,
    <<"j", "a", "p", "a", "n", "e", "s", "e">> }

Male == <<"m", "a", "l", "e">>
Female == <<"f", "e", "m", "a", "l", "e">>

\* what resolve_voice returns for None
NoVoice == <<"None">>

\* the gender part of the score
gender_score(q, info) ==
    IF in(Male, q) /\ ~in(Female, q) /\ info.gender = "male" THEN 3
    ELSE IF in(Female, q) /\ info.gender = "female" THEN 3
    ELSE 0

\* a score that counts the gender keyword only
score_gender_only(q, info) == gender_score(q, info)

\* the score of one entry: gender, accent keywords, name
score(q, info) ==
    gender_score(q, info)
    + 5 * Cardinality({kw \in AccentKeywords :
                          in(kw, q) /\ in(kw, lower(info.accent))})
    + (IF in(info.name, q) THEN 10 ELSE 0)

\* a loop in which the last of the entries with the highest score wins
RECURSIVE best_from_last_wins(_, _, _)
best_from_last_wins(q, i, best) ==
    IF i > Len(VOICE_CATALOG) THEN best
    ELSE LET s == score(q, VOICE_CATALOG[i])
         IN  best_from_last_wins(q, i + 1,
                                 IF s >= best.score
                                 THEN [name |-> i, score |-> s]
                                 ELSE best)

\* the loop over the catalog from entry i on: best is [name, score]
RECURSIVE best_from(_, _, _)
best_from(q, i, best) ==
    IF i > Len(VOICE_CATALOG) THEN best
    ELSE LET s == score(q, VOICE_CATALOG[i])
         IN  best_from(q, i + 1,
                       IF s > best.score THEN [name |-> i, score |-> s]
                       ELSE best)

resolve_voice(query) ==
    LET q == str_strip(lower(query))
        best == best_from(q, 1, [name |-> 0, score |-> 0])
    IN  IF \E i \in 1..Len(VOICE_CATALOG) : VOICE_CATALOG[i].name = q
        THEN VOICE_CATALOG[CHOOSE i \in 1..Len(VOICE_CATALOG) :
                              VOICE_CATALOG[i].name = q].model
        ELSE IF \E i \in 1..Len(VOICE_CATALOG) : VOICE_CATALOG[i].model = q
        THEN q
        ELSE IF best.name # 0 /\ best.score > 0
        THEN VOICE_CATALOG[best.name].model
        ELSE NoVoice

(***************************************************************************)
(* build_shared_persona_prompt, with as_bool_env and as_int_env.           *)
(***************************************************************************)
\* int(str): an optional sign and decimal digits, between whitespace
ValueError == -1000000
DigitValue ==
    "0" :> 0 @@ "1" :> 1 @@ "2" :> 2 @@ "3" :> 3 @@ "4" :> 4 @@
    "5" :> 5 @@ "6" :> 6 @@ "7" :> 7 @@ "8" :> 8 @@ "9" :> 9
RECURSIVE decimal(_)
decimal(ds) ==
    IF ds = << >> THEN 0
    ELSE 10 * decimal(SubSeq(ds, 1, Len(ds) - 1)) + DigitValue[ds[Len(ds)]]
int(value) ==
    LET v == str_strip(value)
        signed == v # << >> /\ v[1] \in {"+", "-"}
        ds == IF signed THEN Tail(v) ELSE v
    IN  IF ds = << >> \/ \E i \in 1..Len(ds) : ds[i] \notin Digits
        THEN ValueError
        ELSE IF signed /\ v[1] = "-" THEN 0 - decimal(ds) ELSE decimal(ds)

as_int_env(value, default) ==
    LET parsed == int(value)
    IN  IF parsed = ValueError THEN default
        ELSE IF parsed > 0 THEN parsed ELSE default

as_bool_env(value, default) ==
    LET normalized == lower(str_strip(value))
    IN  IF normalized \in {<<"1">>, <<"t", "r", "u", "e">>, <<"y", "e", "s">>,
                           <<"o", "n">>} THEN TRUE
        ELSE IF normalized \in {<<"0">>, <<"f", "a", "l", "s", "e">>,
                                <<"n", "o">>, <<"o", "f", "f">>} THEN FALSE
        ELSE default

\* str.rstrip()
rstrip(s) ==
    IF \A i \in 1..Len(s) : s[i] \in Whitespace THEN << >>
    ELSE SubSeq(s, 1, CHOOSE i \in 1..Len(s) :
                         s[i] \notin Whitespace
                         /\ \A k \in (i + 1)..Len(s) : s[k] \in Whitespace)

\* load_workspace_prompt_file: the file's text stripped; "" for no file
load_workspace_prompt_file(workspace, filename) == str_strip(workspace[filename])

\* the sections, in order: filename and the chunk's heading
sections == <<
    [filename |-> "SOUL.md",
     heading |-> <<"[", "S", "O", "U", "L", "]", " ", "(", "S", "O", "U", "L", ".", "m", "d", ")", "\n">>],
    [filename |-> "IDENTITY.md",
     heading |->
        <<"[", "I", "D", "E", "N", "T", "I", "T", "Y", "]", " ", "(", "I",
          "D", "E", "N", "T", "I", "T", "Y", ".", "m", "d", ")", "\n">>],
    [filename |-> "USER.md",
     heading |-> <<"[", "U", "S", "E", "R", "]", " ", "(", "U", "S", "E", "R", ".", "m", "d", ")", "\n">>] >>

Preface ==
    <<"U", "s", "e", " ", "t", "h", "i", "s", " ", "a", "s", " ", "t", "h",
      "e", " ", "c", "a", "n", "o", "n", "i", "c", "a", "l", " ", "O", "p",
      "e", "n", "C", "l", "a", "w", " ", "p", "e", "r", "s", "o", "n", "a",
      "l", "i", "t", "y", " ", "a", "n", "d", " ", "r", "e", "l", "a", "t",
      "i", "o", "n", "s", "h", "i", "p", " ", "c", "o", "n", "t", "e", "x",
      "t", ".", "\n">>
    \o
    <<"P", "r", "i", "o", "r", "i", "t", "i", "z", "e", " ", "t", "h", "e",
      "s", "e", " ", "s", "e", "c", "t", "i", "o", "n", "s", " ", "i", "n",
      " ", "o", "r", "d", "e", "r", ",", " ", "w", "h", "i", "l", "e", " ",
      "s", "t", "a", "y", "i", "n", "g", " ", "c", "o", "n", "c", "i", "s",
      "e", " ", "f", "o", "r", " ", "v", "o", "i", "c", "e", ".", "\n",
      "\n">>

TruncationMarker ==
    <<"\n", "\n", "[", "P", "E", "R", "S", "O", "N", "A", " ", "T", "R",
      "U", "N", "C", "A", "T", "E", "D", "]">>

\* "\n\n".join(chunks) for the sections from i on
RECURSIVE joined(_, _, _)
joined(workspace, i, first) ==
    IF i > Len(sections) THEN << >>
    ELSE LET content == load_workspace_prompt_file(workspace, sections[i].filename)
         IN  IF content = << >> THEN joined(workspace, i + 1, first)
             ELSE (IF first THEN << >> ELSE <<"\n", "\n">>)
                  \o sections[i].heading \o content
                  \o joined(workspace, i + 1, FALSE)

\* a prompt over the limit with the marker behind it, uncut
marked(prompt, max_chars) == prompt \o TruncationMarker

\* prompt[:max_chars].rstrip() + marker
truncated(prompt, max_chars) ==
    rstrip(SubSeq(prompt, 1, max_chars)) \o TruncationMarker

build_shared_persona_prompt(env, workspace) ==
    LET chunks == joined(workspace, 1, TRUE)
        prompt == Preface \o chunks
        max_chars == as_int_env(env.max_chars, 12000)
    IN  IF ~as_bool_env(env.enabled, TRUE) THEN << >>
        ELSE IF chunks = << >> THEN << >>
        ELSE IF Len(prompt) > max_chars THEN truncated(prompt, max_chars)
        ELSE prompt

(***************************************************************************)
(* Messages of the speech agent. A binary message is audio; a text message *)
(* is JSON text.                                                           *)
(***************************************************************************)
EventTypes == {"Welcome", "SettingsApplied", "UserStartedSpeaking",
               "AgentStartedSpeaking", "ConversationText", "Error",
               "History"}

AgentMessages ==
    [bytes : {TRUE}, data : Frames]
    \cup [bytes : {FALSE}, text : {"object"}, type : EventTypes]
    \cup [bytes : {FALSE}, text : {"array", "garbage"}, type : {""}]

\* json.loads of a text message
JsonError == [json |-> "JSONDecodeError"]
json_loads(m) ==
    IF m.text = "garbage" THEN JsonError
    ELSE IF m.text = "array" THEN [json |-> "list"]
    ELSE [json |-> "dict", type |-> m.type]

(***************************************************************************)
(* The session registry.                                                   *)
(***************************************************************************)
Current == <<"_current">>
PublicUrl(host) == <<"https://", host>>
RegistryKeys == {Current} \cup {PublicUrl(h) : h \in Hosts}
\* session_key = f"agent:voice:owner:{OWNER_PHONE}"
SessionKey == <<"agent:voice:owner:", OWNER_PHONE>>

VARIABLES
    provider,               \* the endpoint the slot's connection came to
    pc,                     \* where the slot's handler coroutine is
    ws,                     \* the telephony socket: "open" or "gone"
    deepgram_ws,            \* "none", "open", "lost" (peer closed), "closed"
    stream_sid,             \* Twilio handler's local
    call_control_id,        \* Telnyx handler's local
    session_key,            \* Twilio handler's local
    call_context,           \* Twilio handler's local
    config,                 \* the handler's local: the agent configuration
    early_stop,             \* history: a stop event came before the start event
    sender_task,
    receiver_task,
    prewarm_task,
    audio_queue,
    chunk,                  \* send_to_deepgram's local
    media_msg,              \* receive_from_deepgram's message being sent
    dg_sent,                \* what was written to the speech-agent socket
    ws_sent,                \* what was sent to the telephony socket
    media_in,               \* history: frames enqueued by the handler
    agent_in,               \* history: audio and barge-in events received
    ws_src,                 \* history: for each element of ws_sent, the index
                            \* in agent_in of the message that caused it
    last_started,           \* history: the slot whose start event came last
    active_sessions,        \* _active_sessions
    active_call_context,    \* _active_call_context
    outbound_call_contexts, \* _outbound_call_contexts
    proxy_pc,               \* where the proxy's handler is
    proxy_call,             \* history: the call whose speech agent sent the
                            \* request (0: the request belongs to no call)
    request,                \* the proxy's local body, as received
    forwarded,              \* the requests sent to the backend for the request
    backend_status,         \* the status the backend answered with
    backend_body,           \* the body (stream: the lines) the backend sent
    reply_status,           \* the status returned to the caller
    reply_body,             \* the body (stream: the events) sent to the caller
    emit_src,               \* history: for each event of a streamed reply, the
                            \* index in backend_body of the line it came from
    markdown,               \* strip_markdown's argument
    spoken,                 \* the results of strip_markdown applied to markdown,
                            \* then to its result
    query,                  \* resolve_voice's argument
    resolved,               \* what resolve_voice returned for query, if called
    persona_env,            \* VOICE_SHARED_PERSONA_ENABLED, VOICE_PERSONA_MAX_CHARS
    workspace_files,        \* the texts of the workspace's persona files
    persona_prompt,         \* what build_shared_persona_prompt returned, if
                            \* called
    control_env,            \* CONTROL_API_LOCALHOST_ONLY, CONTROL_API_TOKEN
    voice_file,             \* the text of VOICE_PREF_FILE (empty: no file)
    control_reply,          \* the reply to the last control request: its
                            \* status, and what the handler asked the
                            \* telephony platform for
    watched,                \* which of the three histories below is kept
    early_media,            \* history: the payloads of the media events
                            \* received before the start event
    agent_other,            \* history: how many audio and barge-in events had
                            \* been received when the last error event or
                            \* event of another kind was handled (-1: none)
    warmup                  \* history: how the warm-up request ended

conn_vars == <<provider, ws, deepgram_ws>>
id_vars == <<stream_sid, call_control_id, session_key, call_context, config>>
task_vars == <<sender_task, receiver_task, prewarm_task>>
\* the direction telephony -> speech agent
up_vars == <<audio_queue, chunk, dg_sent, media_in>>
\* the direction speech agent -> telephony
down_vars == <<media_msg, ws_sent, agent_in, ws_src>>
bridge_vars == <<pc, conn_vars, id_vars, early_stop, task_vars, up_vars,
                 down_vars>>
shared_vars == <<active_sessions, active_call_context, outbound_call_contexts>>
proxy_vars == <<proxy_pc, proxy_call, request, forwarded, backend_status,
                backend_body,
                reply_status, reply_body, emit_src>>
persona_vars == <<persona_env, workspace_files, persona_prompt>>
\* the helpers' arguments and results
pure_vars == <<markdown, spoken, query, resolved, persona_vars>>
control_vars == <<control_env, voice_file, control_reply>>
\* the histories of the events that leave no trace in the program's state
hist_vars == <<watched, early_media, agent_other, warmup>>
aux_vars == <<pure_vars, control_vars, hist_vars>>
vars == <<bridge_vars, shared_vars, proxy_vars, last_started, aux_vars>>


(***************************************************************************)
(* Messages of the telephony socket (websocket.receive_json).              *)
(***************************************************************************)
ControlIds == {"v3:cc1"}

TwilioMessages ==
    [event : {"connected", "stop", "mark"}]
    \cup [event : {"start"}, streamSid : StreamSids \cup {None},
          callSid : CallSids \cup {""}]
    \cup [event : {"media"}, payload : Payloads]

TelnyxMessages ==
    [event : {"connected", "stop", "dtmf", "error"}]
    \cup [event : {"start"}, call_control_id : ControlIds \cup {None}]
    \cup [event : {"media"}, payload : Payloads]

Messages(p) == IF p = "twilio" THEN TwilioMessages ELSE TelnyxMessages

(***************************************************************************)
(* Init: the module's globals after import; no connection yet.             *)
(***************************************************************************)
InitProgram ==
    /\ provider = [b \in Calls |-> "twilio"]
    /\ pc = [b \in Calls |-> "idle"]
    /\ ws = [b \in Calls |-> "gone"]
    /\ deepgram_ws = [b \in Calls |-> "none"]
    /\ stream_sid = [b \in Calls |-> None]
    /\ call_control_id = [b \in Calls |-> None]
    /\ session_key = [b \in Calls |-> NoKey]
    /\ call_context = [b \in Calls |-> ""]
    /\ config = [b \in Calls |-> NoMessage]
    /\ early_stop = [b \in Calls |-> FALSE]
    /\ sender_task = [b \in Calls |-> "none"]
    /\ receiver_task = [b \in Calls |-> "none"]
    /\ prewarm_task = [b \in Calls |-> "none"]
    /\ audio_queue = [b \in Calls |-> << >>]
    /\ chunk = [b \in Calls |-> NoChunk]
    /\ media_msg = [b \in Calls |-> NoMessage]
    /\ dg_sent = [b \in Calls |-> << >>]
    /\ ws_sent = [b \in Calls |-> << >>]
    /\ media_in = [b \in Calls |-> << >>]
    /\ agent_in = [b \in Calls |-> << >>]
    /\ ws_src = [b \in Calls |-> << >>]
    /\ last_started = 0
    /\ active_sessions = [k \in RegistryKeys |-> NoKey]
    /\ active_call_context = ""
    /\ outbound_call_contexts = [c \in CallSids |-> Absent]
    /\ proxy_pc = "idle"
    /\ proxy_call = 0
    /\ request = [body |-> "None"]
    /\ forwarded = << >>
    /\ backend_status = 0
    /\ backend_body = << >>
    /\ reply_status = 0
    /\ reply_body = << >>
    /\ emit_src = << >>

\* strip_markdown has not been applied
NoText == markdown = << >> /\ spoken = << >>

\* resolve_voice has not been called
NoQuery == query = << >> /\ resolved = << >>

\* the persona settings' defaults, no persona file, no prompt built
NoPersona ==
    /\ persona_env = [enabled |-> <<"t", "r", "u", "e">>,
                      max_chars |-> <<"1", "2", "0", "0", "0">>]
    /\ workspace_files = [f \in {"SOUL.md", "IDENTITY.md", "USER.md"} |-> << >>]
    /\ persona_prompt = << >>

\* the control API's defaults with a token set, no voice preference saved,
\* no control request yet
NoReply == [status |-> 0, placed |-> "nothing"]
NoControl ==
    /\ control_env = [localhost_only |-> <<"t", "r", "u", "e">>,
                      token |-> "secret"]
    /\ voice_file = << >>
    /\ control_reply = NoReply

\* no history is kept
Watching(what) ==
    /\ watched = what
    /\ early_media = [b \in Calls |-> << >>]
    /\ agent_other = [b \in Calls |-> -1]
    /\ warmup = [b \in Calls |-> "none"]
NoHistory == Watching("nothing")

Init == InitProgram /\ NoText /\ NoQuery /\ NoPersona /\ NoControl /\ NoHistory

(***************************************************************************)
(* Teardown: the handlers' finally blocks.                                 *)
(***************************************************************************)
\* a cancel() that lets a task finish the send it is waiting in
cancel_unless_sending(t) ==
    IF t \in {"waiting", "running"} THEN "cancelled" ELSE t

\* task.cancel(): a task that has not finished runs no further step
cancel(t) == IF t \in {"waiting", "sending", "running"} THEN "cancelled" ELSE t

\* a removal that takes the sentinel entry when there is one and the call's
\* other entries only when there is none
remove_sentinel_or_rest(b) ==
    IF session_key[b] = NoKey THEN active_sessions
    ELSE IF active_sessions[Current] # NoKey
    THEN [active_sessions EXCEPT ![Current] = NoKey]
    ELSE [k \in RegistryKeys |->
            IF active_sessions[k] = session_key[b]
            THEN NoKey ELSE active_sessions[k]]

\* the registry after "Remove session mapping" of slot b
remove_session_mapping(b) ==
    IF session_key[b] # NoKey
    THEN [k \in RegistryKeys |->
            IF k = Current \/ active_sessions[k] = session_key[b]
            THEN NoKey ELSE active_sessions[k]]
    ELSE active_sessions

\* the statements of the finally block after the connection's close()
AfterClose(b) ==
    IF provider[b] = "twilio"
    THEN /\ active_sessions' = remove_session_mapping(b)
         /\ active_call_context' = ""
    ELSE UNCHANGED <<active_sessions, active_call_context>>

\* a finally block that cancels the forwarding tasks only
cancel_forwarding_only(b) ==
    /\ sender_task' = [sender_task EXCEPT ![b] = cancel(@)]
    /\ receiver_task' = [receiver_task EXCEPT ![b] = cancel(@)]
    /\ UNCHANGED prewarm_task

\* the tasks after the finally block's cancel() calls
cancel_tasks(b) ==
    /\ sender_task' = [sender_task EXCEPT ![b] = cancel(@)]
    /\ receiver_task' = [receiver_task EXCEPT ![b] = cancel(@)]
    /\ prewarm_task' = [prewarm_task EXCEPT ![b] = cancel(@)]

\* the handler returns or raises: the server closes the telephony socket
Returned(b) == ws' = [ws EXCEPT ![b] = "gone"]

\* the finally block up to its first suspension point (await close()), or to
\* its end when there is no connection to close
Finally(b) ==
    /\ cancel_tasks(b)
    /\ IF deepgram_ws[b] # "none"
       THEN /\ pc' = [pc EXCEPT ![b] = "closing"]
            /\ UNCHANGED <<ws, active_sessions, active_call_context>>
       ELSE /\ pc' = [pc EXCEPT ![b] = "done"]
            /\ AfterClose(b)
            /\ Returned(b)

\* await deepgram_ws.close() returns
CloseReturns(b) ==
    /\ pc[b] = "closing"
    /\ deepgram_ws' = [deepgram_ws EXCEPT ![b] = "closed"]
    /\ pc' = [pc EXCEPT ![b] = "done"]
    /\ AfterClose(b)
    /\ Returned(b)
    /\ UNCHANGED <<provider, id_vars, early_stop, task_vars, up_vars, down_vars,
                   outbound_call_contexts, proxy_vars, last_started, aux_vars>>

\* await deepgram_ws.close() raises (the handler task is cancelled while it
\* waits, or the library fails): the rest of the finally block is skipped and
\* the connection is left in either state
CloseRaises(b) ==
    /\ pc[b] = "closing"
    /\ \E c \in {deepgram_ws[b], "closed"} :
          deepgram_ws' = [deepgram_ws EXCEPT ![b] = c]
    /\ pc' = [pc EXCEPT ![b] = "failed"]
    /\ Returned(b)
    /\ UNCHANGED <<provider, id_vars, early_stop, task_vars, up_vars, down_vars,
                   shared_vars, proxy_vars, last_started, aux_vars>>

(***************************************************************************)
(* The handlers up to Streaming.                                           *)
(***************************************************************************)
\* a connection arrives: websocket.accept(), the handler's locals, and the
\* start of websockets.connect
Accept(b, p) ==
    /\ pc[b] \in {"idle", "done", "failed"}
    /\ provider' = [provider EXCEPT ![b] = p]
    /\ pc' = [pc EXCEPT ![b] = "connecting"]
    /\ ws' = [ws EXCEPT ![b] = "open"]
    /\ deepgram_ws' = [deepgram_ws EXCEPT ![b] = "none"]
    /\ stream_sid' = [stream_sid EXCEPT ![b] = None]
    /\ call_control_id' = [call_control_id EXCEPT ![b] = None]
    /\ session_key' = [session_key EXCEPT ![b] = NoKey]
    /\ call_context' = [call_context EXCEPT ![b] = ""]
    /\ config' = [config EXCEPT ![b] = NoMessage]
    /\ early_stop' = [early_stop EXCEPT ![b] = FALSE]
    /\ sender_task' = [sender_task EXCEPT ![b] = "none"]
    /\ receiver_task' = [receiver_task EXCEPT ![b] = "none"]
    /\ prewarm_task' = [prewarm_task EXCEPT ![b] = "none"]
    /\ audio_queue' = [audio_queue EXCEPT ![b] = << >>]
    /\ chunk' = [chunk EXCEPT ![b] = NoChunk]
    /\ media_msg' = [media_msg EXCEPT ![b] = NoMessage]
    /\ dg_sent' = [dg_sent EXCEPT ![b] = << >>]
    /\ ws_sent' = [ws_sent EXCEPT ![b] = << >>]
    /\ media_in' = [media_in EXCEPT ![b] = << >>]
    /\ agent_in' = [agent_in EXCEPT ![b] = << >>]
    /\ ws_src' = [ws_src EXCEPT ![b] = << >>]
    /\ early_media' = [early_media EXCEPT ![b] = << >>]
    /\ agent_other' = [agent_other EXCEPT ![b] = -1]
    /\ warmup' = [warmup EXCEPT ![b] = "none"]
    /\ UNCHANGED <<shared_vars, proxy_vars, last_started, pure_vars,
                   control_vars, watched>>

\* websockets.connect returns the connection
ConnectReturns(b) ==
    /\ pc[b] = "connecting"
    /\ deepgram_ws' = [deepgram_ws EXCEPT ![b] = "open"]
    /\ pc' = [pc EXCEPT ![b] = "awaiting"]
    /\ UNCHANGED <<provider, ws, id_vars, early_stop, task_vars, up_vars, down_vars,
                   shared_vars, proxy_vars, last_started, aux_vars>>

\* websockets.connect raises: except Exception, then finally
ConnectRaises(b) ==
    /\ pc[b] = "connecting"
    /\ Finally(b)
    /\ UNCHANGED <<provider, deepgram_ws, id_vars, early_stop, up_vars, down_vars,
                   outbound_call_contexts, proxy_vars, last_started, aux_vars>>

\* the telephony peer goes away; the handler learns of it at its next receive
PeerDisconnects(b) ==
    /\ pc[b] \in {"connecting", "awaiting", "config", "streaming"}
    /\ ws[b] = "open"
    /\ ws' = [ws EXCEPT ![b] = "gone"]
    /\ UNCHANGED <<provider, deepgram_ws, pc, id_vars, early_stop, task_vars, up_vars,
                   down_vars, shared_vars, proxy_vars, last_started, aux_vars>>

\* the speech agent closes the connection, or the transport fails
AgentDisconnects(b) ==
    /\ pc[b] \in {"awaiting", "config", "streaming"}
    /\ deepgram_ws[b] = "open"
    /\ deepgram_ws' = [deepgram_ws EXCEPT ![b] = "lost"]
    /\ UNCHANGED <<provider, ws, pc, id_vars, early_stop, task_vars, up_vars,
                   down_vars, shared_vars, proxy_vars, last_started, aux_vars>>

\* receive_json raises WebSocketDisconnect: except, then finally
ReceiveDisconnect(b) ==
    /\ pc[b] \in {"awaiting", "streaming"}
    /\ ws[b] = "gone"
    /\ Finally(b)
    /\ UNCHANGED <<provider, deepgram_ws, id_vars, early_stop, up_vars, down_vars,
                   outbound_call_contexts, proxy_vars, last_started, aux_vars>>

\* receive_json raises on a frame that is not JSON: except Exception, finally
ReceiveRaises(b) ==
    /\ pc[b] \in {"awaiting", "streaming"}
    /\ ws[b] = "open"
    /\ Finally(b)
    /\ UNCHANGED <<provider, deepgram_ws, id_vars, early_stop, up_vars, down_vars,
                   outbound_call_contexts, proxy_vars, last_started, aux_vars>>

\* first loop: an event that is neither "start" nor "stop" nor "media" is
\* skipped ("connected" is logged)
AwaitingStartSkips(b) ==
    /\ pc[b] = "awaiting"
    /\ ws[b] = "open"
    /\ \E m \in Messages(provider[b]) :
          m.event \notin {"start", "stop", "media"}
    /\ UNCHANGED vars

\* a first loop that handles a media event as the second loop does
AwaitingStartMediaQueued(b, m) ==
    /\ pc[b] = "awaiting"
    /\ ws[b] = "open"
    /\ m.event = "media"
    /\ m.payload # << >>
    /\ b64decode(m.payload) # B64Error
    /\ Len(early_media[b]) < MaxEarly
    /\ Len(audio_queue[b]) < MaxMedia
    /\ early_media' = [early_media EXCEPT ![b] = Append(@, m.payload)]
    /\ audio_queue' = [audio_queue EXCEPT ![b] = Append(@, b64decode(m.payload))]
    /\ UNCHANGED <<pc, conn_vars, id_vars, early_stop, task_vars, chunk,
                   dg_sent, media_in, down_vars, shared_vars, proxy_vars,
                   last_started, pure_vars, control_vars, watched,
                   agent_other, warmup>>

\* first loop, event "media": it is no "start" event, so it is skipped; its
\* payload is not read
AwaitingStartMedia(b, m) ==
    /\ pc[b] = "awaiting"
    /\ ws[b] = "open"
    /\ m.event = "media"
    /\ IF watched = "early media"
       THEN /\ Len(early_media[b]) < MaxEarly
            /\ early_media' = [early_media EXCEPT ![b] = Append(@, m.payload)]
       ELSE UNCHANGED early_media
    /\ UNCHANGED <<bridge_vars, shared_vars, proxy_vars, last_started,
                   pure_vars, control_vars, watched, agent_other, warmup>>

\* first loop, event "stop": it is no "start" event, so it is skipped as well
\* and the handler waits for the next event
AwaitingStartStop(b) ==
    /\ pc[b] = "awaiting"
    /\ ws[b] = "open"
    /\ \E m \in Messages(provider[b]) : m.event = "stop"
    /\ early_stop' = [early_stop EXCEPT ![b] = TRUE]
    /\ UNCHANGED <<pc, conn_vars, id_vars, task_vars, up_vars, down_vars,
                   shared_vars, proxy_vars, last_started, aux_vars>>

\* what deepgram_ws.send writes: a text frame for a str, a binary frame for bytes
text_frame(x) == [binary |-> FALSE, body |-> x]
binary_frame(x) == [binary |-> TRUE, body |-> x]

\* read_voice_preference: the saved model, DEEPGRAM_TTS_MODEL when the file
\* is missing or blank
read_voice_preference ==
    LET model == str_strip(voice_file)
    IN  IF model # << >> THEN model ELSE DEEPGRAM_TTS_MODEL

\* write_voice_preference: what the file holds afterwards
write_voice_preference(model) == model \o <<"\n">>

\* a configuration that names the default voice whatever was saved
get_agent_config_default_voice(public_url) ==
    [type |-> "Settings", url |-> <<public_url, "/v1/chat/completions">>,
     speak |-> DEEPGRAM_TTS_MODEL]

\* get_agent_config(public_url): the message type, the proxy's URL and the
\* synthesis voice
get_agent_config(public_url) ==
    [type |-> "Settings", url |-> <<public_url, "/v1/chat/completions">>,
     speak |-> read_voice_preference]

\* a start that suspends between the two registry writes: the step up to the
\* suspension registers the deployment key only
TwilioStartKeyByKey(b, m, host) ==
    /\ pc[b] = "awaiting"
    /\ provider[b] = "twilio"
    /\ ws[b] = "open"
    /\ m.event = "start"
    /\ stream_sid' = [stream_sid EXCEPT ![b] = m.streamSid]
    /\ LET found == m.callSid \in CallSids
                    /\ outbound_call_contexts[m.callSid] # Absent
           context == IF found THEN outbound_call_contexts[m.callSid]
                      ELSE ""
       IN  /\ outbound_call_contexts' =
                 IF found
                 THEN [outbound_call_contexts EXCEPT ![m.callSid] = Absent]
                 ELSE outbound_call_contexts
           /\ call_context' = [call_context EXCEPT ![b] = context]
           /\ active_call_context' = context
    /\ session_key' = [session_key EXCEPT ![b] = SessionKey]
    /\ active_sessions' = [active_sessions EXCEPT
                              ![PublicUrl(host)] = SessionKey]
    /\ prewarm_task' = [prewarm_task EXCEPT ![b] = "running"]
    /\ config' = [config EXCEPT ![b] = get_agent_config(PublicUrl(host))]
    /\ pc' = [pc EXCEPT ![b] = "config"]
    /\ last_started' = b
    /\ UNCHANGED <<conn_vars, call_control_id, early_stop, sender_task,
                   receiver_task, up_vars, down_vars, proxy_vars, aux_vars>>

\* a start that reads the recorded context and leaves it where it is
TwilioStartReadsContext(b, m, host) ==
    /\ pc[b] = "awaiting"
    /\ provider[b] = "twilio"
    /\ ws[b] = "open"
    /\ m.event = "start"
    /\ stream_sid' = [stream_sid EXCEPT ![b] = m.streamSid]
    /\ LET found == m.callSid \in CallSids
                    /\ outbound_call_contexts[m.callSid] # Absent
           context == IF found THEN outbound_call_contexts[m.callSid]
                      ELSE ""
       IN  /\ UNCHANGED outbound_call_contexts
           /\ call_context' = [call_context EXCEPT ![b] = context]
           /\ active_call_context' = context
    /\ session_key' = [session_key EXCEPT ![b] = SessionKey]
    /\ active_sessions' = [active_sessions EXCEPT
                              ![PublicUrl(host)] = SessionKey,
                              ![Current] = SessionKey]
    /\ prewarm_task' = [prewarm_task EXCEPT ![b] = "running"]
    /\ config' = [config EXCEPT ![b] = get_agent_config(PublicUrl(host))]
    /\ pc' = [pc EXCEPT ![b] = "config"]
    /\ last_started' = b
    /\ UNCHANGED <<conn_vars, call_control_id, early_stop, sender_task,
                   receiver_task, up_vars, down_vars, proxy_vars, aux_vars>>

\* Twilio's first loop, event "start", up to await deepgram_ws.send(config).
\* host is the websocket's Host header, read here for the first time.
TwilioStart(b, m, host) ==
    /\ pc[b] = "awaiting"
    /\ provider[b] = "twilio"
    /\ ws[b] = "open"
    /\ m.event = "start"
    /\ stream_sid' = [stream_sid EXCEPT ![b] = m.streamSid]
    /\ LET found == m.callSid \in CallSids
                    /\ outbound_call_contexts[m.callSid] # Absent
           context == IF found THEN outbound_call_contexts[m.callSid]
                      ELSE ""
       IN  /\ outbound_call_contexts' =
                 IF found
                 THEN [outbound_call_contexts EXCEPT ![m.callSid] = Absent]
                 ELSE outbound_call_contexts
           /\ call_context' = [call_context EXCEPT ![b] = context]
           /\ active_call_context' = context
    /\ session_key' = [session_key EXCEPT ![b] = SessionKey]
    /\ active_sessions' = [active_sessions EXCEPT
                              ![PublicUrl(host)] = SessionKey,
                              ![Current] = SessionKey]
    /\ prewarm_task' = [prewarm_task EXCEPT ![b] = "running"]
    /\ config' = [config EXCEPT ![b] = get_agent_config(PublicUrl(host))]
    /\ pc' = [pc EXCEPT ![b] = "config"]
    /\ last_started' = b
    /\ UNCHANGED <<conn_vars, call_control_id, early_stop, sender_task,
                   receiver_task, up_vars, down_vars, proxy_vars, aux_vars>>

\* Telnyx's first loop, event "start", up to await deepgram_ws.send(config)
TelnyxStart(b, m, host) ==
    /\ pc[b] = "awaiting"
    /\ provider[b] = "telnyx"
    /\ ws[b] = "open"
    /\ m.event = "start"
    /\ call_control_id' = [call_control_id EXCEPT ![b] = m.call_control_id]
    /\ config' = [config EXCEPT ![b] = get_agent_config(PublicUrl(host))]
    /\ pc' = [pc EXCEPT ![b] = "config"]
    /\ last_started' = b
    /\ UNCHANGED <<conn_vars, stream_sid, session_key, call_context,
                   early_stop, task_vars, up_vars, down_vars, shared_vars, proxy_vars,
                   aux_vars>>

\* a handler that waits for the warm-up before it goes on
ConfigSentAfterWarmup(b) ==
    /\ pc[b] = "config"
    /\ deepgram_ws[b] = "open"
    /\ prewarm_task[b] # "running"
    /\ dg_sent' = [dg_sent EXCEPT ![b] = Append(@, text_frame(config[b]))]
    /\ sender_task' = [sender_task EXCEPT ![b] = "waiting"]
    /\ receiver_task' = [receiver_task EXCEPT ![b] = "waiting"]
    /\ pc' = [pc EXCEPT ![b] = "streaming"]
    /\ UNCHANGED <<conn_vars, id_vars, early_stop, prewarm_task, audio_queue, chunk,
                   media_in, down_vars, shared_vars, proxy_vars, last_started, aux_vars>>

\* deepgram_ws.send(config) returns; both forwarding tasks are created
ConfigSent(b) ==
    /\ pc[b] = "config"
    /\ deepgram_ws[b] = "open"
    /\ dg_sent' = [dg_sent EXCEPT ![b] = Append(@, text_frame(config[b]))]
    /\ sender_task' = [sender_task EXCEPT ![b] = "waiting"]
    /\ receiver_task' = [receiver_task EXCEPT ![b] = "waiting"]
    /\ pc' = [pc EXCEPT ![b] = "streaming"]
    /\ UNCHANGED <<conn_vars, id_vars, early_stop, prewarm_task, audio_queue, chunk,
                   media_in, down_vars, shared_vars, proxy_vars, last_started, aux_vars>>

\* deepgram_ws.send(config) raises: except Exception, then finally
ConfigRaises(b) ==
    /\ pc[b] = "config"
    /\ deepgram_ws[b] = "lost"
    /\ Finally(b)
    /\ UNCHANGED <<provider, deepgram_ws, id_vars, early_stop, up_vars, down_vars,
                   outbound_call_contexts, proxy_vars, last_started, aux_vars>>

(***************************************************************************)
(* The handlers' second loop (Streaming).                                  *)
(***************************************************************************)
\* event "media": a non-empty payload is decoded and enqueued; b64decode
\* raising ends in the finally block
StreamingMedia(b, m) ==
    /\ pc[b] = "streaming"
    /\ ws[b] = "open"
    /\ m.event = "media"
    /\ LET payload == m.payload
           audio_data == b64decode(payload)
       IN  IF payload = << >>
           THEN UNCHANGED vars
           ELSE IF audio_data = B64Error
           THEN /\ Finally(b)
                /\ UNCHANGED <<provider, deepgram_ws, id_vars, early_stop, up_vars, down_vars,
                               outbound_call_contexts, proxy_vars, last_started, aux_vars>>
           ELSE /\ Len(media_in[b]) < MaxMedia
                /\ audio_queue' = [audio_queue EXCEPT ![b] = Append(@, audio_data)]
                /\ media_in' = [media_in EXCEPT ![b] = Append(@, payload)]
                /\ UNCHANGED <<pc, conn_vars, id_vars, early_stop, task_vars, chunk,
                               dg_sent, down_vars, shared_vars, proxy_vars, last_started, aux_vars>>

\* event "stop": break, then finally
StreamingStop(b) ==
    /\ pc[b] = "streaming"
    /\ ws[b] = "open"
    /\ Finally(b)
    /\ UNCHANGED <<provider, deepgram_ws, id_vars, early_stop, up_vars, down_vars,
                   outbound_call_contexts, proxy_vars, last_started, aux_vars>>

\* a second loop that treats a further start event as the first loop does:
\* it sends the configuration and creates the tasks again
StreamingStartsAgain(b) ==
    /\ pc[b] = "streaming"
    /\ ws[b] = "open"
    /\ deepgram_ws[b] = "open"
    /\ Len(dg_sent[b]) <= MaxMedia + 1
    /\ dg_sent' = [dg_sent EXCEPT ![b] = Append(@, text_frame(config[b]))]
    /\ sender_task' = [sender_task EXCEPT ![b] = "waiting"]
    /\ receiver_task' = [receiver_task EXCEPT ![b] = "waiting"]
    /\ UNCHANGED <<pc, conn_vars, id_vars, early_stop, prewarm_task,
                   audio_queue, chunk, media_in, down_vars, shared_vars,
                   proxy_vars, last_started, aux_vars>>

\* any other event (Telnyx logs "dtmf" and "error"): the loop goes on
StreamingSkips(b) ==
    /\ pc[b] = "streaming"
    /\ ws[b] = "open"
    /\ \E m \in Messages(provider[b]) : m.event \notin {"media", "stop"}
    /\ UNCHANGED vars

(***************************************************************************)
(* send_to_deepgram.                                                       *)
(***************************************************************************)
\* a queue that hands out its newest element
SenderGetsNewest(b) ==
    /\ sender_task[b] = "waiting"
    /\ audio_queue[b] # << >>
    /\ chunk' = [chunk EXCEPT ![b] = audio_queue[b][Len(audio_queue[b])]]
    /\ audio_queue' = [audio_queue EXCEPT ![b] = SubSeq(@, 1, Len(@) - 1)]
    /\ sender_task' = [sender_task EXCEPT ![b] = "sending"]
    /\ UNCHANGED <<pc, conn_vars, id_vars, early_stop, receiver_task, prewarm_task,
                   dg_sent, media_in, down_vars, shared_vars, proxy_vars,
                   last_started, aux_vars>>

\* chunk = await audio_queue.get()
SenderGets(b) ==
    /\ sender_task[b] = "waiting"
    /\ audio_queue[b] # << >>
    /\ chunk' = [chunk EXCEPT ![b] = Head(audio_queue[b])]
    /\ audio_queue' = [audio_queue EXCEPT ![b] = Tail(@)]
    /\ sender_task' = [sender_task EXCEPT ![b] = "sending"]
    /\ UNCHANGED <<pc, conn_vars, id_vars, early_stop, receiver_task, prewarm_task,
                   dg_sent, media_in, down_vars, shared_vars, proxy_vars, last_started, aux_vars>>

\* a send that writes its frame twice
SenderSentTwice(b) ==
    /\ sender_task[b] = "sending"
    /\ deepgram_ws[b] = "open"
    /\ dg_sent' = [dg_sent EXCEPT ![b] =
                      @ \o <<binary_frame(chunk[b]), binary_frame(chunk[b])>>]
    /\ chunk' = [chunk EXCEPT ![b] = NoChunk]
    /\ sender_task' = [sender_task EXCEPT ![b] = "waiting"]
    /\ UNCHANGED <<pc, conn_vars, id_vars, early_stop, receiver_task, prewarm_task,
                   audio_queue, media_in, down_vars, shared_vars, proxy_vars, last_started, aux_vars>>

\* await deepgram_ws.send(chunk) returns
SenderSent(b) ==
    /\ sender_task[b] = "sending"
    /\ deepgram_ws[b] = "open"
    /\ dg_sent' = [dg_sent EXCEPT ![b] = Append(@, binary_frame(chunk[b]))]
    /\ chunk' = [chunk EXCEPT ![b] = NoChunk]
    /\ sender_task' = [sender_task EXCEPT ![b] = "waiting"]
    /\ UNCHANGED <<pc, conn_vars, id_vars, early_stop, receiver_task, prewarm_task,
                   audio_queue, media_in, down_vars, shared_vars, proxy_vars, last_started, aux_vars>>

\* await deepgram_ws.send(chunk) raises: logged, break
SenderRaises(b) ==
    /\ sender_task[b] = "sending"
    /\ deepgram_ws[b] = "lost"
    /\ sender_task' = [sender_task EXCEPT ![b] = "ended"]
    /\ UNCHANGED <<pc, conn_vars, id_vars, early_stop, receiver_task, prewarm_task,
                   up_vars, down_vars, shared_vars, proxy_vars, last_started, aux_vars>>

(***************************************************************************)
(* receive_from_deepgram.                                                  *)
(***************************************************************************)
\* the identifier the task tests before it sends to the telephony socket
stream_tag(b) ==
    IF provider[b] = "twilio" THEN stream_sid[b] ELSE call_control_id[b]

\* a media event that carries the bytes as they are
media_event_raw(b, data) ==
    IF provider[b] = "twilio"
    THEN [event |-> "media", streamSid |-> stream_sid[b], payload |-> data]
    ELSE [event |-> "media", payload |-> data]

\* the media event that wraps an audio message
media_event(b, data) ==
    IF provider[b] = "twilio"
    THEN [event |-> "media", streamSid |-> stream_sid[b],
          payload |-> b64encode(data)]
    ELSE [event |-> "media", payload |-> b64encode(data)]

\* the clear event of a barge-in
clear_event(b) ==
    IF provider[b] = "twilio"
    THEN [event |-> "clear", streamSid |-> stream_sid[b]]
    ELSE [event |-> "clear"]

\* handling the message raised (json.loads, or event.get on a list)
Raised == [event |-> "Exception"]

\* an error event, or an event of a kind the task has no branch for
Other(m) == ~m.bytes /\ m.text = "object" /\ m.type \in {"Error", "History"}

\* a receiver that gives up at an error event or an event of another kind
to_send_or_give_up(b, m) ==
    IF m.bytes
    THEN IF stream_tag(b) # None THEN media_event(b, m.data) ELSE NoMessage
    ELSE LET event == json_loads(m)
         IN  IF event.json # "dict" \/ Other(m) THEN Raised
             ELSE IF event.type = "UserStartedSpeaking" /\ stream_tag(b) # None
             THEN clear_event(b)
             ELSE NoMessage

\* a receiver that relays audio but has no barge-in branch
to_send_without_clear(b, m) ==
    IF m.bytes
    THEN IF stream_tag(b) # None THEN media_event(b, m.data) ELSE NoMessage
    ELSE LET event == json_loads(m)
         IN  IF event.json # "dict" THEN Raised ELSE NoMessage

\* what one received message makes the task send: NoMessage when nothing is
\* sent, Raised when handling it raises
to_send(b, m) ==
    IF m.bytes
    THEN IF stream_tag(b) # None THEN media_event(b, m.data) ELSE NoMessage
    ELSE LET event == json_loads(m)
         IN  IF event.json # "dict" THEN Raised
             ELSE IF event.type = "UserStartedSpeaking" /\ stream_tag(b) # None
             THEN clear_event(b)
             ELSE NoMessage


\* the messages the history agent_in keeps: audio and barge-in events
Significant(m) ==
    \/ m.bytes
    \/ (~m.bytes /\ m.text = "object" /\ m.type = "UserStartedSpeaking")

\* message = await deepgram_ws.recv() returns m; the task runs to its next
\* await (websocket.send_json), to the next recv, or to its break
ReceiverGets(b, m) ==
    /\ receiver_task[b] = "waiting"
    /\ deepgram_ws[b] = "open"
    /\ Significant(m) => Len(agent_in[b]) < MaxAgent
    /\ agent_in' = [agent_in EXCEPT ![b] =
                       IF Significant(m) THEN Append(@, m) ELSE @]
    /\ LET out == to_send(b, m)
       IN  IF out = Raised
           THEN /\ receiver_task' = [receiver_task EXCEPT ![b] = "ended"]
                /\ UNCHANGED media_msg
           ELSE IF out = NoMessage
           THEN UNCHANGED <<receiver_task, media_msg>>
           ELSE /\ receiver_task' = [receiver_task EXCEPT ![b] = "sending"]
                /\ media_msg' = [media_msg EXCEPT ![b] = out]
    /\ agent_other' =
          IF watched = "agent events" /\ Other(m)
          THEN [agent_other EXCEPT ![b] = Len(agent_in[b])]
          ELSE agent_other
    /\ UNCHANGED <<pc, conn_vars, id_vars, early_stop, sender_task, prewarm_task,
                   up_vars, ws_sent, ws_src, shared_vars, proxy_vars,
                   last_started, pure_vars, control_vars, watched,
                   early_media, warmup>>

\* deepgram_ws.recv() raises ConnectionClosed: logged, break
ReceiverClosed(b) ==
    /\ receiver_task[b] = "waiting"
    /\ deepgram_ws[b] = "lost"
    /\ receiver_task' = [receiver_task EXCEPT ![b] = "ended"]
    /\ UNCHANGED <<pc, conn_vars, id_vars, early_stop, sender_task, prewarm_task,
                   up_vars, down_vars, shared_vars, proxy_vars, last_started, aux_vars>>

\* a receiver whose message overtakes what was sent before
ReceiverSentFirst(b) ==
    /\ receiver_task[b] = "sending"
    /\ ws[b] = "open"
    /\ ws_sent' = [ws_sent EXCEPT ![b] = <<media_msg[b]>> \o @]
    /\ ws_src' = [ws_src EXCEPT ![b] = <<Len(agent_in[b])>> \o @]
    /\ media_msg' = [media_msg EXCEPT ![b] = NoMessage]
    /\ receiver_task' = [receiver_task EXCEPT ![b] = "waiting"]
    /\ UNCHANGED <<pc, conn_vars, id_vars, early_stop, sender_task, prewarm_task,
                   up_vars, agent_in, shared_vars, proxy_vars, last_started, aux_vars>>

\* await websocket.send_json(...) returns
ReceiverSent(b) ==
    /\ receiver_task[b] = "sending"
    /\ ws[b] = "open"
    /\ ws_sent' = [ws_sent EXCEPT ![b] = Append(@, media_msg[b])]
    /\ ws_src' = [ws_src EXCEPT ![b] = Append(@, Len(agent_in[b]))]
    /\ media_msg' = [media_msg EXCEPT ![b] = NoMessage]
    /\ receiver_task' = [receiver_task EXCEPT ![b] = "waiting"]
    /\ UNCHANGED <<pc, conn_vars, id_vars, early_stop, sender_task, prewarm_task,
                   up_vars, agent_in, shared_vars, proxy_vars, last_started, aux_vars>>

\* await websocket.send_json(...) raises: except Exception, break
ReceiverRaises(b) ==
    /\ receiver_task[b] = "sending"
    /\ ws[b] = "gone"
    /\ receiver_task' = [receiver_task EXCEPT ![b] = "ended"]
    /\ UNCHANGED <<pc, conn_vars, id_vars, early_stop, sender_task, prewarm_task,
                   up_vars, down_vars, shared_vars, proxy_vars, last_started, aux_vars>>

(***************************************************************************)
(* prewarm_openclaw_session: its request succeeds, fails or times out; all *)
(* three are logged and the coroutine returns.                             *)
(***************************************************************************)
WarmupOutcomes == {"warmed", "failed", "timed out"}
PrewarmReturns(b) ==
    /\ prewarm_task[b] = "running"
    /\ prewarm_task' = [prewarm_task EXCEPT ![b] = "finished"]
    /\ IF watched = "warm-up"
       THEN \E outcome \in WarmupOutcomes :
               warmup' = [warmup EXCEPT ![b] = outcome]
       ELSE UNCHANGED warmup
    /\ UNCHANGED <<pc, conn_vars, id_vars, early_stop, sender_task, receiver_task,
                   up_vars, down_vars, shared_vars, proxy_vars, last_started,
                   pure_vars, control_vars, watched, early_media,
                   agent_other>>

(***************************************************************************)
(* The control API and the completion proxy.                               *)
(***************************************************************************)
\* is_local_request: the client's host is a local name or a loopback address
ClientHosts == {"127.0.0.1", "localhost", "203.0.113.9", "None"}
is_local_request(req) ==
    req.client \in {"localhost", "testclient", "host.docker.internal",
                        "127.0.0.1", "::1"}

\* an Authorization header: << >> when the request has none
Bearer(token) == <<"Bearer ", token>>
ControlRequests ==
    [client : ClientHosts,
     authorization : {<< >>, <<"secret">>, Bearer("secret"), Bearer("wrong"),
                      Bearer("")}]

\* a control_auth_error that does not look at the bearer token
control_auth_error_without_token(req) ==
    IF as_bool_env(control_env.localhost_only, TRUE) /\ ~is_local_request(req)
    THEN 403
    ELSE IF control_env.token = "" THEN 503
    ELSE 0

\* control_auth_error: the status of the error reply, 0 for None
control_auth_error(req) ==
    IF as_bool_env(control_env.localhost_only, TRUE) /\ ~is_local_request(req)
    THEN 403
    ELSE IF control_env.token = "" THEN 503
    ELSE IF req.authorization # Bearer(control_env.token) THEN 401
    ELSE 0

\* the reply of a control handler
reply(status, placed) == [status |-> status, placed |-> placed]

\* the request the voice agent is told to make: from this host, with the token
OwnerRequest == [client |-> "127.0.0.1", authorization |-> Bearer("secret")]

\* initiate_owner_call: unless the request is rejected, the call is created
\* and its context recorded under the call SID the telephony platform returns
\* (a SID is not handed out twice)
InitiateOwnerCall(req, call_sid, context) ==
    LET auth_error == control_auth_error(req)
    IN  /\ IF auth_error # 0
           THEN /\ control_reply' = reply(auth_error, "nothing")
                /\ UNCHANGED outbound_call_contexts
           ELSE /\ outbound_call_contexts[call_sid] = Absent
                /\ outbound_call_contexts' =
                      [outbound_call_contexts EXCEPT ![call_sid] = context]
                /\ control_reply' = reply(200, "call")
        /\ UNCHANGED <<bridge_vars, hist_vars, active_sessions, active_call_context,
                       proxy_vars, last_started, pure_vars, control_env,
                       voice_file>>

\* initiate_owner_call when calls.create raises TwilioRestException
InitiateOwnerCallFails(req) ==
    /\ control_auth_error(req) = 0
    /\ control_reply' = reply(500, "nothing")
    /\ UNCHANGED <<bridge_vars, hist_vars, shared_vars, proxy_vars, last_started,
                   pure_vars, control_env, voice_file>>

\* send_owner_sms; message is the body's stripped "message" field
SmsMessages == {"", "see you at five"}
SendOwnerSms(req, message) ==
    LET auth_error == control_auth_error(req)
    IN  /\ control_reply' =
              IF auth_error # 0 THEN reply(auth_error, "nothing")
              ELSE IF message = "" THEN reply(400, "nothing")
              ELSE reply(200, "sms")
        /\ UNCHANGED <<bridge_vars, hist_vars, shared_vars, proxy_vars, last_started,
                       pure_vars, control_env, voice_file>>

\* get_voice_preference
GetVoicePreference(req) ==
    LET auth_error == control_auth_error(req)
    IN  /\ control_reply' =
              IF auth_error # 0 THEN reply(auth_error, "nothing")
              ELSE reply(200, "nothing")
        /\ UNCHANGED <<bridge_vars, hist_vars, shared_vars, proxy_vars, last_started,
                       pure_vars, control_env, voice_file>>

\* set_voice_preference; voice is the body's "voice" field
VoiceInputs ==
    { << >>, <<"o", "r", "i", "o", "n">>,
      <<" ", "M", "a", "l", "e", " ", "b", "r", "i", "t", "i", "s", "h">>,
      <<"x", "y", "z", "z", "y">> }
SetVoicePreference(req, voice) ==
    LET auth_error == control_auth_error(req)
        voice_input == str_strip(voice)
        model == resolve_voice(voice_input)
    IN  /\ IF auth_error # 0
           THEN /\ control_reply' = reply(auth_error, "nothing")
                /\ UNCHANGED voice_file
           ELSE IF voice_input = << >> \/ model = NoVoice
           THEN /\ control_reply' = reply(400, "nothing")
                /\ UNCHANGED voice_file
           ELSE /\ voice_file' = write_voice_preference(model)
                /\ control_reply' = reply(200, "nothing")
        /\ UNCHANGED <<bridge_vars, hist_vars, shared_vars, proxy_vars, last_started,
                       pure_vars, control_env>>

\* a header that is the owner's session key whatever the registry holds
session_header_of_owner == SessionKey

\* the X-OpenClaw-Session-Key header of a request handled now (None: no header)
session_header ==
    IF active_sessions[Current] # NoKey THEN active_sessions[Current]
    ELSE NoKey

(***************************************************************************)
(* proxy_chat_completions: the request.                                    *)
(***************************************************************************)
VOICE_MODEL == "openclaw/voice"
\* a key the JSON object does not have
Missing == "missing"

developer(content) == [role |-> "developer", content |-> content]

\* the caller's turns
Turns ==
    << [role |-> "system", content |-> <<"be brief">>],
       [role |-> "user", content |-> <<"hello">>] >>

\* body["messages"]: missing, a string, or a list of turns
MessagesValues ==
    { [kind |-> Missing, items |-> << >>],
      [kind |-> "str", items |-> << >>],
      [kind |-> "list", items |-> << >>],
      [kind |-> "list", items |-> Turns] }

\* request bodies: JSON objects
Bodies ==
    [ messages : MessagesValues,
      model : {Missing, "gpt-4o-mini"},
      tools : {Missing, "tools"},
      tool_choice : {Missing, "auto"},
      stream : {Missing, "true", "false"},
      temperature : {Missing, "0.7"} ]

\* build_shared_persona_prompt(): empty when disabled or no file has content
Personas == {<< >>, <<"persona">>}
\* build_voice_behavior_overlay_prompt()
Overlay == <<"overlay">>
\* datetime.now(timezone.utc), formatted
Times == {"2026-01-01T00:00:00Z"}

\* a prefix with the call context in front of the behaviour policy
injected_messages_context_first(persona, now_utc) ==
    (IF persona # << >> THEN <<developer(persona)>> ELSE << >>)
    \o (IF active_call_context # ""
        THEN <<developer(
                 <<"You are on an outbound call you initiated. Reason: ",
                   active_call_context>>)>>
        ELSE << >>)
    \o <<developer(Overlay)>>
    \o <<developer(<<"Current UTC time: ", now_utc>>)>>

\* the list the handler builds before the caller's messages
injected_messages(persona, now_utc) ==
    (IF persona # << >> THEN <<developer(persona)>> ELSE << >>)
    \o <<developer(Overlay)>>
    \o <<developer(<<"Current UTC time: ", now_utc>>)>>
    \o (IF active_call_context # ""
        THEN <<developer(
                 <<"You are on an outbound call you initiated. Reason: ",
                   active_call_context>>)>>
        ELSE << >>)

\* a rewriting that pops "tools" only
forward_body_keeping_tool_choice(body, persona, now_utc) ==
    LET messages == IF body.messages.kind = "list" THEN body.messages.items
                    ELSE << >>
    IN  [body EXCEPT
           !.messages = [kind |-> "list",
                         items |-> injected_messages(persona, now_utc)
                                   \o messages],
           !.model = VOICE_MODEL,
           !.tools = Missing]

\* the body after the handler's rewriting
forward_body(body, persona, now_utc) ==
    LET messages == IF body.messages.kind = "list" THEN body.messages.items
                    ELSE << >>
    IN  [body EXCEPT
           !.messages = [kind |-> "list",
                         items |-> injected_messages(persona, now_utc)
                                   \o messages],
           !.model = VOICE_MODEL,
           !.tools = Missing,
           !.tool_choice = Missing]

\* the request to the backend: json=body, headers=headers
backend_request(body, persona, now_utc) ==
    [body |-> forward_body(body, persona, now_utc),
     session_header |-> session_header]

\* the call whose speech agent can send a request (0: a request that comes
\* while no handler runs)
CanRequest(c) ==
    IF c = 0 THEN \A b \in Calls : pc[b] \in {"idle", "done", "failed"}
    ELSE pc[c] = "streaming" /\ deepgram_ws[c] = "open"

\* a handler that clears the call context once it has injected it
ProxyChatCompletionsOnce(c, body, persona, now_utc) ==
    /\ proxy_pc \in {"idle", "done", "raised"}
    /\ CanRequest(c)
    /\ proxy_call' = c
    /\ request' = body
    /\ forwarded' = <<backend_request(body, persona, now_utc)>>
    /\ IF body.stream = "true"
       THEN proxy_pc' = "opening" /\ reply_status' = 200
       ELSE proxy_pc' = "posting" /\ reply_status' = 0
    /\ backend_status' = 0
    /\ backend_body' = << >>
    /\ reply_body' = << >>
    /\ emit_src' = << >>
    /\ active_call_context' = ""
    /\ UNCHANGED <<bridge_vars, active_sessions, outbound_call_contexts,
                   last_started, aux_vars>>

\* proxy_chat_completions up to its return (stream) or to client.post; the
\* streamed answer starts with status 200 whatever the backend will say
ProxyChatCompletions(c, body, persona, now_utc) ==
    /\ proxy_pc \in {"idle", "done", "raised"}
    /\ CanRequest(c)
    /\ proxy_call' = c
    /\ request' = body
    /\ forwarded' = <<backend_request(body, persona, now_utc)>>
    /\ IF body.stream = "true"
       THEN proxy_pc' = "opening" /\ reply_status' = 200
       ELSE proxy_pc' = "posting" /\ reply_status' = 0
    /\ backend_status' = 0
    /\ backend_body' = << >>
    /\ reply_body' = << >>
    /\ emit_src' = << >>
    /\ UNCHANGED <<bridge_vars, shared_vars, last_started, aux_vars>>

(***************************************************************************)
(* proxy_chat_completions: the non-streaming answer.                       *)
(***************************************************************************)
Statuses == {200, 500}
Contents == {<<123, 125>>, <<123, 34, 101, 34, 58, 49, 125>>}

\* a handler that returns the body with the default status
PostReturnsOk(status, content) ==
    /\ proxy_pc = "posting"
    /\ backend_status' = status
    /\ backend_body' = content
    /\ reply_status' = 200
    /\ reply_body' = content
    /\ proxy_pc' = "done"
    /\ UNCHANGED <<bridge_vars, shared_vars, last_started, aux_vars, proxy_call,
                   request, forwarded, emit_src>>

\* client.post returns; the handler returns its Response
PostReturns(status, content) ==
    /\ proxy_pc = "posting"
    /\ backend_status' = status
    /\ backend_body' = content
    /\ reply_status' = status
    /\ reply_body' = content
    /\ proxy_pc' = "done"
    /\ UNCHANGED <<bridge_vars, shared_vars, last_started, aux_vars, proxy_call,
                   request, forwarded, emit_src>>

\* client.post raises (backend unreachable): the framework answers 500
PostRaises ==
    /\ proxy_pc = "posting"
    /\ reply_status' = 500
    /\ proxy_pc' = "raised"
    /\ UNCHANGED <<bridge_vars, shared_vars, last_started, aux_vars, proxy_call,
                   request, forwarded, backend_status, backend_body, reply_body,
                   emit_src>>

(***************************************************************************)
(* stream_response. A line is its first six characters when they are       *)
(* "data: " (head) and the rest: a text, or the text of a JSON value with  *)
(* the spacing it is written in.                                           *)
(***************************************************************************)
Fragments ==
    { << >>, <<"H", "i">>,
      <<"*", "*", "H", "i", "*", "*", " ", "t", "h", "e", "r", "e">> }

\* JSON values: a number, or an object with the keys id and choices; choices
\* is missing, [], a list of numbers, or a list of one object whose delta is
\* missing, null or an object whose content is missing, a number or a string
JsonValues ==
    [ json : {"number"}, id : {"c1"}, choices : {Missing},
      delta : {Missing}, content : {Missing}, text : {<< >>} ]
    \cup [ json : {"object"}, id : {"c1"},
           choices : {Missing, "empty", "numbers"},
           delta : {Missing}, content : {Missing}, text : {<< >>} ]
    \cup [ json : {"object"}, id : {"c1"}, choices : {"objects"},
           delta : {Missing, "null"}, content : {Missing}, text : {<< >>} ]
    \cup [ json : {"object"}, id : {"c1"}, choices : {"objects"},
           delta : {"object"}, content : {Missing, "number"},
           text : {<< >>} ]
    \cup [ json : {"object"}, id : {"c1"}, choices : {"objects"},
           delta : {"object"}, content : {"str"}, text : Fragments ]

text_line(head, text) == [head |-> head, rest |-> [kind |-> "text", text |-> text]]
json_line(value, spacing) ==
    [head |-> "data: ",
     rest |-> [kind |-> "json", value |-> value, spacing |-> spacing]]

DoneLine == text_line("data: ", "[DONE]")
BlankLine == text_line("", "")
Lines ==
    { DoneLine, BlankLine, text_line("", " "), text_line("", ": ping"),
      text_line("data: ", "{oops") }
    \cup { json_line(v, sp) : v \in JsonValues, sp \in {"compact", "dumps"} }

\* line.strip()
strip(line) ==
    IF line.head = "" /\ line.rest.kind = "text" /\ line.rest.text = " "
    THEN BlankLine ELSE line

\* json.dumps(data), behind "data: "
json_dumps(data) == json_line(data, "dumps")

\* one yielded event: the line and "\n\n"
event_of(line) == [line |-> line, end |-> <<"\n", "\n">>]

\* the body of the loop for a data line whose rest parsed to data
rewrite(data) ==
    IF data.json # "object" THEN Raised
    ELSE IF data.choices \in {Missing, "empty"} THEN event_of(json_dumps(data))
    ELSE IF data.choices = "numbers" \/ data.delta = "null" THEN Raised
    ELSE IF data.delta = Missing \/ data.content = Missing
    THEN event_of(json_dumps(data))
    ELSE IF data.content = "number" THEN Raised
    ELSE IF data.text = << >> THEN event_of(json_dumps(data))
    ELSE event_of(json_dumps([data EXCEPT !.text = strip_markdown(@)]))

\* what one line makes the generator yield: NoMessage when it yields nothing,
\* Raised when an exception other than JSONDecodeError leaves the generator
stream_event(line) ==
    IF line = BlankLine THEN NoMessage
    ELSE IF line.head = "data: " /\ line # DoneLine
    THEN IF line.rest.kind # "json" THEN event_of(line)
         ELSE rewrite(line.rest.value)
    ELSE IF strip(line) # BlankLine THEN event_of(line)
    ELSE NoMessage

\* client.stream(...) is entered: the backend's status line has arrived
StreamOpens(status) ==
    /\ proxy_pc = "opening"
    /\ backend_status' = status
    /\ proxy_pc' = "streaming"
    /\ UNCHANGED <<bridge_vars, shared_vars, last_started, aux_vars, proxy_call,
                   request, forwarded, backend_body, reply_status, reply_body,
                   emit_src>>

\* an iteration that puts its event in front of the earlier ones
StreamLineNewestFirst(line) ==
    /\ proxy_pc = "streaming"
    /\ Len(backend_body) < MaxLines
    /\ backend_body' = Append(backend_body, line)
    /\ LET out == stream_event(line)
       IN  IF out = Raised
           THEN /\ proxy_pc' = "raised"
                /\ UNCHANGED <<reply_body, emit_src>>
           ELSE IF out = NoMessage
           THEN UNCHANGED <<proxy_pc, reply_body, emit_src>>
           ELSE /\ reply_body' = <<out>> \o reply_body
                /\ emit_src' = <<Len(backend_body) + 1>> \o emit_src
                /\ UNCHANGED proxy_pc
    /\ UNCHANGED <<bridge_vars, shared_vars, last_started, aux_vars, proxy_call,
                   request, forwarded, backend_status, reply_status>>

\* one iteration of "async for line in response.aiter_lines()"
StreamLine(line) ==
    /\ proxy_pc = "streaming"
    /\ Len(backend_body) < MaxLines
    /\ backend_body' = Append(backend_body, line)
    /\ LET out == stream_event(line)
       IN  IF out = Raised
           THEN /\ proxy_pc' = "raised"
                /\ UNCHANGED <<reply_body, emit_src>>
           ELSE IF out = NoMessage
           THEN UNCHANGED <<proxy_pc, reply_body, emit_src>>
           ELSE /\ reply_body' = Append(reply_body, out)
                /\ emit_src' = Append(emit_src, Len(backend_body) + 1)
                /\ UNCHANGED proxy_pc
    /\ UNCHANGED <<bridge_vars, shared_vars, last_started, aux_vars, proxy_call,
                   request, forwarded, backend_status, reply_status>>

\* the backend's stream ends: the generator returns
StreamEnds ==
    /\ proxy_pc = "streaming"
    /\ proxy_pc' = "done"
    /\ UNCHANGED <<bridge_vars, shared_vars, last_started, aux_vars, proxy_call,
                   request, forwarded, backend_status, backend_body, reply_status,
                   reply_body, emit_src>>

(***************************************************************************)
(* Specifications. Each takes every step of the handlers; they differ in   *)
(* what the peers deliver.                                                 *)
(*                                                                         *)
(* SpecRelay: one call on slot 1, from its connection to the end of its    *)
(* handler, with audio in both directions.                                 *)
(*                                                                         *)
(* SpecCalls: calls on both slots, one after another and at the same time, *)
(* with the control API; the peers deliver every event but                 *)
(* audio frames and barge-in events (which change no shared state), and    *)
(* every start event carries its stream identifier.                        *)
(***************************************************************************)
RelayCall == CHOOSE b \in Calls : \A c \in Calls : b <= c
RelayHost == "a.example"

\* the steps slot b's handler and tasks take by themselves
Own(b) ==
    \/ ConnectReturns(b)
    \/ ReceiveDisconnect(b)
    \/ ConfigSent(b)
    \/ ConfigRaises(b)
    \/ ReceiverClosed(b)
    \/ PrewarmReturns(b)
    \/ CloseReturns(b)

\* the steps of the two forwarding tasks that move audio and clear events
Forward(b) ==
    \/ SenderGets(b)
    \/ SenderSent(b)
    \/ SenderRaises(b)
    \/ ReceiverSent(b)
    \/ ReceiverRaises(b)

\* what the peers and the environment do to slot b, but for the start event,
\* media events and the speech agent's messages
Peers(b) ==
    \/ ConnectRaises(b)
    \/ PeerDisconnects(b)
    \/ AgentDisconnects(b)
    \/ ReceiveRaises(b)
    \/ AwaitingStartSkips(b)
    \/ \E m \in Messages(provider[b]) : AwaitingStartMedia(b, m)
    \/ StreamingStop(b)
    \/ StreamingSkips(b)
    \/ CloseRaises(b)

NextRelay ==
    \/ \E p \in {"twilio", "telnyx"} :
          pc[RelayCall] = "idle" /\ Accept(RelayCall, p)
    \/ Own(RelayCall)
    \/ Forward(RelayCall)
    \/ Peers(RelayCall)
    \/ \E m \in TwilioMessages : TwilioStart(RelayCall, m, RelayHost)
    \/ \E m \in TelnyxMessages : TelnyxStart(RelayCall, m, RelayHost)
    \/ \E m \in Messages(provider[RelayCall]) : StreamingMedia(RelayCall, m)
    \/ \E m \in AgentMessages : ReceiverGets(RelayCall, m)

SpecRelay == Init /\ [][NextRelay]_vars

\* a new connection takes the lowest slot whose handler is not running
Free(b) == pc[b] \in {"idle", "done", "failed"}
FreeSlot ==
    IF \E b \in Calls : Free(b)
    THEN CHOOSE b \in Calls : Free(b) /\ \A c \in Calls : Free(c) => b <= c
    ELSE 0

NextCalls ==
    \/ \E b \in Calls, p \in {"twilio", "telnyx"} :
          b = FreeSlot /\ Accept(b, p)
    \/ \E b \in Calls : Own(b)
    \/ \E b \in Calls : Peers(b)
    \/ \E b \in Calls, m \in TwilioMessages, h \in Hosts :
          m.event = "start" /\ m.streamSid # None /\ TwilioStart(b, m, h)
    \/ \E b \in Calls, m \in TelnyxMessages, h \in Hosts :
          m.event = "start" /\ m.call_control_id # None
          /\ TelnyxStart(b, m, h)
    \/ \E b \in Calls : \E m \in Messages(provider[b]) :
          m.event = "media" /\ m.payload \in {<< >>, BadPayload}
          /\ StreamingMedia(b, m)
    \/ \E b \in Calls, m \in AgentMessages :
          ~Significant(m) /\ ReceiverGets(b, m)
    \/ \E c \in CallSids, x \in Contexts :
          InitiateOwnerCall(OwnerRequest, c, x)

SpecCalls == Init /\ [][NextCalls]_vars

\* SpecStream: streamed answers of the backend, line by line, to a request
\* that comes while no call is active.
StreamBodies ==
    {body \in Bodies :
        /\ body.stream = "true" /\ body.messages.items = Turns
        /\ body.model # Missing /\ body.tools = Missing
        /\ body.tool_choice = Missing /\ body.temperature = Missing}

NextStream ==
    \/ \E body \in StreamBodies, now_utc \in Times :
          ProxyChatCompletions(0, body, << >>, now_utc)
    \/ \E status \in Statuses : StreamOpens(status)
    \/ \E line \in Lines : StreamLine(line)
    \/ StreamEnds

SpecStream == Init /\ [][NextStream]_vars

\* SpecForward: every request body, and every answer to a request that is
\* not streamed, while no call is active.
NextForward ==
    \/ \E body \in Bodies, persona \in Personas, now_utc \in Times :
          ProxyChatCompletions(0, body, persona, now_utc)
    \/ \E status \in Statuses, content \in Contents :
          PostReturns(status, content)
    \/ PostRaises
    \/ \E status \in Statuses : StreamOpens(status)
    \/ StreamLine(DoneLine)
    \/ StreamEnds

SpecForward == Init /\ [][NextForward]_vars

\* SpecSession: calls one after another on slot 1, placed by the control API
\* or inbound, and the requests the proxy handles during and between them.
SessionBodies ==
    {body \in Bodies :
        /\ body.stream # Missing /\ body.model # Missing
        /\ body.tools = Missing /\ body.tool_choice = Missing
        /\ body.temperature = Missing}

NextSession ==
    \/ \E p \in {"twilio", "telnyx"} : Accept(RelayCall, p)
    \/ Own(RelayCall)
    \/ Peers(RelayCall)
    \/ \E m \in TwilioMessages :
          m.event = "start" /\ m.streamSid # None
          /\ TwilioStart(RelayCall, m, RelayHost)
    \/ \E m \in TelnyxMessages :
          m.event = "start" /\ m.call_control_id # None
          /\ TelnyxStart(RelayCall, m, RelayHost)
    \/ \E c \in CallSids, x \in Contexts :
          InitiateOwnerCall(OwnerRequest, c, x)
    \/ \E c \in {0, RelayCall}, body \in SessionBodies,
          persona \in Personas, now_utc \in Times :
          ProxyChatCompletions(c, body, persona, now_utc)
    \/ \E status \in Statuses : PostReturns(status, <<123, 125>>)
    \/ StreamOpens(200)
    \/ StreamLine(DoneLine)
    \/ StreamEnds

SpecSession == Init /\ [][NextSession]_vars

\* the proxy applies strip_markdown to a delta's content; the result is
\* spoken, and shown to strip_markdown again
StripMarkdown ==
    /\ Len(spoken) < 2
    /\ spoken' = Append(spoken,
                        strip_markdown(IF spoken = << >> THEN markdown
                                       ELSE spoken[Len(spoken)]))
    /\ UNCHANGED <<bridge_vars, hist_vars, shared_vars, proxy_vars, last_started,
                   markdown, query, resolved, persona_vars, control_vars>>

\* SpecTransform: strip_markdown on every text of Texts, once and twice.
InitTransform ==
    InitProgram /\ markdown \in Texts /\ spoken = << >> /\ NoQuery
    /\ NoPersona /\ NoControl /\ NoHistory

SpecTransform == InitTransform /\ [][StripMarkdown]_vars

\* the queries resolve_voice is called with: up to MaxWords words with a
\* blank between them
MaxWords == 2
Words == {
    <<"o", "r", "i", "o", "n">>,
    <<"a", "u", "r", "a", "-", "2", "-", "o", "r", "i", "o", "n", "-", "e", "n">>,
    <<"m", "a", "l", "e">>,
    <<"f", "e", "m", "a", "l", "e">>,
    <<"b", "r", "i", "t", "i", "s", "h">>,
    <<"g", "e", "r", "m", "a", "n">>,
    <<"j", "a", "p", "a", "n", "e", "s", "e">>,
    <<"x", "y", "z", "z", "y">>,
    <<"Z", "e", "u", "s">>,
    <<"s", "p", "a", "n", "i", "s", "h">>,
    <<>> }
RECURSIVE Phrases(_)
Phrases(n) ==
    IF n = 0 THEN {<< >>}
    ELSE {p \o <<" ">> \o w : p \in Phrases(n - 1), w \in Words} \cup Words
Queries == Phrases(MaxWords)

\* set_voice_preference's call of resolve_voice
ResolveVoice ==
    /\ resolved = << >>
    /\ resolved' = <<resolve_voice(query)>>
    /\ UNCHANGED <<bridge_vars, hist_vars, shared_vars, proxy_vars, last_started,
                   markdown, spoken, query, persona_vars, control_vars>>

\* SpecResolve: resolve_voice on every query of Queries.
InitResolve ==
    InitProgram /\ NoText /\ query \in Queries /\ resolved = << >>
    /\ NoPersona /\ NoControl /\ NoHistory

SpecResolve == InitResolve /\ [][ResolveVoice]_vars

\* the persona files' texts and the settings build_shared_persona_prompt
\* is called with
MaxFile == 2
FileTexts == UNION {[1..n -> {"a", " "}] : n \in 0..MaxFile}
Workspaces == [{"SOUL.md", "IDENTITY.md", "USER.md"} -> FileTexts]
PersonaEnvs ==
    [enabled : {<<"t", "r", "u", "e">>, <<"o", "f", "f">>},
     max_chars : {<<"1", "2", "0", "0", "0">>, <<"1", "5", "0">>,
                  <<"1", "6", "1">>, <<" ", "1", "6", "3", " ">>,
                  <<"a", "b", "c">>, <<"0">>, <<"-", "5">>}]

\* proxy_chat_completions' call of build_shared_persona_prompt
BuildSharedPersonaPrompt ==
    /\ persona_prompt = << >>
    /\ persona_prompt' =
          <<build_shared_persona_prompt(persona_env, workspace_files)>>
    /\ UNCHANGED <<bridge_vars, hist_vars, shared_vars, proxy_vars, last_started,
                   markdown, spoken, query, resolved, persona_env,
                   workspace_files, control_vars>>

\* SpecPersona: build_shared_persona_prompt on every workspace and setting.
InitPersona ==
    /\ InitProgram /\ NoText /\ NoQuery /\ NoControl /\ NoHistory
    /\ persona_env \in PersonaEnvs
    /\ workspace_files \in Workspaces
    /\ persona_prompt = << >>

SpecPersona == InitPersona /\ [][BuildSharedPersonaPrompt]_vars

\* SpecLifecycle: SpecRelay's call, whose telephony peer may also send a
\* stop event before the start event.
NextLifecycle ==
    \/ NextRelay
    \/ AwaitingStartStop(RelayCall)

SpecLifecycle == Init /\ [][NextLifecycle]_vars

\* SpecControl: the control API under every setting of its two environment
\* variables, with requests from local and remote clients.
ControlEnvs ==
    [localhost_only : {<<"t", "r", "u", "e">>, <<"f", "a", "l", "s", "e">>},
     token : {"", "secret"}]

InitControl ==
    /\ InitProgram /\ NoText /\ NoQuery /\ NoPersona /\ NoHistory
    /\ control_env \in ControlEnvs
    /\ voice_file = << >>
    /\ control_reply = NoReply

NextControl ==
    \/ \E req \in ControlRequests, c \in CallSids, x \in Contexts :
          InitiateOwnerCall(req, c, x)
    \/ \E req \in ControlRequests : InitiateOwnerCallFails(req)
    \/ \E req \in ControlRequests, message \in SmsMessages :
          SendOwnerSms(req, message)
    \/ \E req \in ControlRequests : GetVoicePreference(req)
    \/ \E req \in ControlRequests, voice \in VoiceInputs :
          SetVoicePreference(req, voice)

SpecControl == InitControl /\ [][NextControl]_vars

\* SpecVoice: calls one after another on slot 1, and the voice control
\* surface used before, during and between them.
VoiceRequests ==
    {OwnerRequest, [client |-> "203.0.113.9", authorization |-> Bearer("wrong")]}

NextVoice ==
    \/ \E p \in {"twilio", "telnyx"} : Accept(RelayCall, p)
    \/ Own(RelayCall)
    \/ Peers(RelayCall)
    \/ \E m \in TwilioMessages :
          m.event = "start" /\ m.streamSid # None
          /\ TwilioStart(RelayCall, m, RelayHost)
    \/ \E m \in TelnyxMessages :
          m.event = "start" /\ m.call_control_id # None
          /\ TelnyxStart(RelayCall, m, RelayHost)
    \/ \E req \in VoiceRequests : GetVoicePreference(req)
    \/ \E req \in VoiceRequests, voice \in VoiceInputs :
          SetVoicePreference(req, voice)

SpecVoice == Init /\ [][NextVoice]_vars

\* SpecWarmup, SpecAgentEvents, SpecDiscard: SpecRelay's call with the
\* history kept of how the warm-up ended, of the error events and events of
\* other kinds the speech agent sent, of the media events that came before
\* the start event
InitWarmup ==
    InitProgram /\ NoText /\ NoQuery /\ NoPersona /\ NoControl
    /\ Watching("warm-up")
SpecWarmup == InitWarmup /\ [][NextRelay]_vars

InitAgentEvents ==
    InitProgram /\ NoText /\ NoQuery /\ NoPersona /\ NoControl
    /\ Watching("agent events")
SpecAgentEvents == InitAgentEvents /\ [][NextRelay]_vars

InitDiscard ==
    InitProgram /\ NoText /\ NoQuery /\ NoPersona /\ NoControl
    /\ Watching("early media")
SpecDiscard == InitDiscard /\ [][NextRelay]_vars

\* SpecRelay with the fairness asyncio's event loop gives: a step a coroutine
\* of the call can take by itself is taken; the peers owe nothing
FairRelay == SpecRelay /\ WF_vars(Own(RelayCall) \/ Forward(RelayCall))

(***************************************************************************)
(* Properties.                                                             *)
(***************************************************************************)
\* the audio frames written to the speech-agent connection, in order
Written(b) ==
    LET audio == SelectSeq(dg_sent[b], LAMBDA e : e.binary)
    IN  [i \in 1..Len(audio) |-> audio[i].body]

\* the frame the forwarding task took from the queue and has not written
InFlight(b) == IF chunk[b] = NoChunk THEN << >> ELSE <<chunk[b]>>

\* the base64 decoding of each payload of a sequence of media events
Decoded(payloads) == [i \in 1..Len(payloads) |-> b64decode(payloads[i])]

\* a task that can still take a step
Running(t) == t \in {"waiting", "sending", "running"}

\* the speech agent's barge-in event
IsUserStartedSpeaking(m) ==
    ~m.bytes /\ m.text = "object" /\ m.type = "UserStartedSpeaking"

\* the receiving task is through with the j-th message of agent_in: it has
\* taken a later one, or it waits for the next
Handled(b, j) == j < Len(agent_in[b]) \/ receiver_task[b] = "waiting"

\* a clear event was sent to the telephony socket for message j of agent_in
ClearSentFor(b, j) ==
    \E k \in 1..Len(ws_sent[b]) :
        ws_sent[b][k].event = "clear" /\ ws_src[b][k] = j

\* the call of slot b has had its start event and is not in teardown
Started(b) == pc[b] \in {"config", "streaming"}

\* the handler of slot b takes a step of its teardown
TeardownStep(b) == pc'[b] # pc[b] /\ pc'[b] \in {"closing", "done", "failed"}

\* the handler of slot b finishes
Finishes(b) == pc[b] \notin {"done", "failed"} /\ pc'[b] \in {"done", "failed"}

\* C1 (as amended): at every moment the decoded payloads of the media events
\* received in Streaming are, in order and byte for byte, the audio frames
\* written to the speech-agent connection, followed by the frame whose write
\* has not returned, followed by the frames still queued. No frame is written
\* twice, altered or out of order; a frame goes unwritten only when its write
\* fails or the forwarding task stops before it.
C1_FramesConserved ==
    \A b \in Calls :
        Decoded(media_in[b]) = Written(b) \o InFlight(b) \o audio_queue[b]

\* C1 witness: two different frames were received and both were written
C1_TwoFramesRelayed ==
    \E b \in Calls :
        /\ Len(Written(b)) = 2
        /\ Written(b)[1] # Written(b)[2]
        /\ Decoded(media_in[b]) = Written(b)

\* C1 as stated: when the handler has finished, the frames written are
\* exactly the decoded payloads received
C1_AllFramesWritten ==
    \A b \in Calls :
        pc[b] \in {"done", "failed"} => Written(b) = Decoded(media_in[b])

\* C2 (as amended): a bridge that knows its stream identifier sends a clear
\* event for each user-started-speaking event before it takes the next
\* message from the speech agent, and every relayed audio frame is preceded
\* on the telephony socket by the clear event of each user-started-speaking
\* event that was received before that frame.
C2_ClearBeforeLaterAudio ==
    \A b \in Calls :
        /\ \A j \in 1..Len(agent_in[b]) :
              ( /\ IsUserStartedSpeaking(agent_in[b][j])
                /\ stream_tag(b) # None
                /\ Handled(b, j) ) => ClearSentFor(b, j)
        /\ \A i \in 1..Len(ws_sent[b]) : \A j \in 1..Len(agent_in[b]) :
              ( /\ ws_sent[b][i].event = "media"
                /\ IsUserStartedSpeaking(agent_in[b][j])
                /\ j < ws_src[b][i] )
              => \E k \in 1..(i - 1) :
                    ws_sent[b][k] = clear_event(b) /\ ws_src[b][k] = j

\* C2 witness: a barge-in event, then audio; the clear event went out first
C2_ClearThenAudio ==
    \E b \in Calls :
        /\ Len(agent_in[b]) = 2
        /\ IsUserStartedSpeaking(agent_in[b][1])
        /\ agent_in[b][2].bytes
        /\ Len(ws_sent[b]) = 2
        /\ ws_sent[b][1] = clear_event(b)
        /\ ws_sent[b][2] = media_event(b, agent_in[b][2].data)

\* C2 as stated: every user-started-speaking event the receiving task is
\* through with has its clear event on the telephony socket
C2_EveryBargeInCleared ==
    \A b \in Calls : \A j \in 1..Len(agent_in[b]) :
        (IsUserStartedSpeaking(agent_in[b][j]) /\ Handled(b, j))
        => ClearSentFor(b, j)

\* C3 as stated: the step that processes a call's start event, Twilio or
\* Telnyx, leaves the registry's current-call entry at that call's session
\* key, so that a proxy request handled next carries it
C3_StartRegistersCall ==
    [][\A b \in Calls :
          (pc[b] = "awaiting" /\ pc'[b] = "config")
          => (session_header' # NoKey /\ session_header' = session_key'[b])
      ]_vars

\* C4 as stated: once a call has been torn down and no handler is running, a
\* proxy request carries no session header
C4_NoHeaderAfterTeardown ==
    ( /\ \A b \in Calls : Free(b)
      /\ \E b \in Calls : pc[b] \in {"done", "failed"} )
    => session_header = NoKey

\* C5 as stated: while the call that started last is active, the registry's
\* current-call entry is its session key, whatever the other handler does
C5_CurrentIsLatestCall ==
    \A b \in Calls :
        (last_started = b /\ Started(b) /\ provider[b] = "twilio")
        => active_sessions[Current] = session_key[b]

\* C6 as stated: a teardown step of one handler changes neither the registry
\* entries nor the recorded context of another call that is active
C6_OtherCallUntouched ==
    [][\A a \in Calls : \A b \in Calls \ {a} :
          ( /\ TeardownStep(a)
            /\ Started(b) /\ last_started = b /\ provider[b] = "twilio" )
          => /\ \A k \in RegistryKeys :
                   active_sessions[k] = session_key[b]
                   => active_sessions'[k] = active_sessions[k]
             /\ active_call_context' = active_call_context
      ]_vars

C8_RegistryClearedOnExit ==
    [][\A b \in Calls :
          (Finishes(b) /\ session_key[b] # NoKey)
          => \A k \in RegistryKeys : active_sessions'[k] # session_key[b]
      ]_vars

\* C9 as stated: a bridge in Streaming whose speech-agent connection has
\* failed proceeds to teardown
C9_FailureLeadsToTeardown ==
    \A b \in Calls :
        (pc[b] = "streaming" /\ deepgram_ws[b] = "lost")
        ~> (pc[b] \in {"closing", "done", "failed"})

\* C10 as stated: the receiving task survives a text frame that is not JSON
C10_MalformedFrameIgnored ==
    [][\A b \in Calls : \A m \in AgentMessages :
          (~m.bytes /\ m.text = "garbage" /\ ReceiverGets(b, m))
          => Running(receiver_task'[b])
      ]_vars

\* the lines of a streamed answer that are not blank
NonBlank(lines) == {i \in 1..Len(lines) : strip(lines[i]) # BlankLine}

\* the handler takes a request (up to its return or to client.post)
Handles ==
    proxy_pc \in {"idle", "done", "raised"}
    /\ proxy_pc' \in {"opening", "posting"}

\* C11 as stated: every non-blank line received from the backend has made
\* the generator emit exactly one event, and the stream has not been cut
C11_OneEventPerLine ==
    /\ proxy_pc # "raised"
    /\ Len(reply_body) = Cardinality(NonBlank(backend_body))

\* C12: the events of a streamed reply are in the order of the lines they
\* come from, each the event of its line; so no event precedes the event of
\* an earlier line, and the terminal sentinel follows every event of the
\* lines before it.
C12_EventsInLineOrder ==
    /\ Len(emit_src) = Len(reply_body)
    /\ \A i \in 1..Len(reply_body) :
          /\ emit_src[i] \in 1..Len(backend_body)
          /\ reply_body[i] = stream_event(backend_body[emit_src[i]])
    /\ \A i \in 1..Len(reply_body) : \A j \in 1..Len(reply_body) :
          i < j => emit_src[i] < emit_src[j]

\* C12 witness: a rewritten data line, then the terminal sentinel
C12_DeltaThenDone ==
    /\ Len(backend_body) = 2
    /\ backend_body[1].rest.kind = "json"
    /\ backend_body[2] = DoneLine
    /\ Len(reply_body) = 2
    /\ reply_body[2] = event_of(DoneLine)

\* the JSON value carries a non-empty text delta fragment
HasTextDelta(data) ==
    /\ data.json = "object" /\ data.choices = "objects"
    /\ data.delta = "object" /\ data.content = "str" /\ data.text # << >>

\* the event the line at index i of the streamed answer has produced is e
EventOf(i, e) ==
    \E k \in 1..Len(reply_body) : emit_src[k] = i /\ reply_body[k] = e

\* C13 as stated: every data line received whose payload is valid JSON has
\* produced the event "data: <json>" and a blank line, where <json> is the
\* same value with its text delta fragment, when it has a non-empty one,
\* replaced by strip_markdown of the fragment; every other data line but the
\* terminal sentinel has produced an event with the line as it came
C13_DeltaRewritten ==
    \A i \in 1..Len(backend_body) :
        LET line == backend_body[i]
            data == line.rest.value
        IN  (line.head = "data: " /\ line # DoneLine)
            => IF line.rest.kind # "json" THEN EventOf(i, event_of(line))
               ELSE IF HasTextDelta(data)
               THEN EventOf(i, event_of(json_dumps(
                        [data EXCEPT !.text = strip_markdown(@)])))
               ELSE EventOf(i, event_of(json_dumps(data)))

\* the content of the call-context block for a recorded reason
ContextBlock(reason) ==
    <<"You are on an outbound call you initiated. Reason: ", reason>>

\* C14: the message list of the forwarded request is the persona block (when
\* the persona is not empty), the behaviour policy, the current time and the
\* call-context block (when a call context is recorded), in this order and
\* each one developer-role message, followed by the caller's messages in
\* their order; the caller's messages count as none when the field is missing
\* or is not a list.
C14_PrefixThenMessages ==
    [][Handles =>
        \A persona \in Personas, now_utc \in Times :
          ProxyChatCompletions(proxy_call', request', persona, now_utc)
          => LET sent == forwarded'[1].body.messages
                 caller == IF request'.messages.kind = "list"
                           THEN request'.messages.items ELSE << >>
                 blocks ==
                     (IF persona # << >> THEN <<persona>> ELSE << >>)
                     \o <<Overlay, <<"Current UTC time: ", now_utc>> >>
                     \o (IF active_call_context # ""
                         THEN <<ContextBlock(active_call_context)>>
                         ELSE << >>)
             IN  /\ Len(forwarded') = 1
                 /\ sent.kind = "list"
                 /\ Len(sent.items) = Len(blocks) + Len(caller)
                 /\ \A i \in 1..Len(blocks) :
                       sent.items[i] =
                           [role |-> "developer", content |-> blocks[i]]
                 /\ \A i \in 1..Len(caller) :
                       sent.items[Len(blocks) + i] = caller[i]
      ]_vars

\* C14 witness: a request of an outbound call with a reason, persona present:
\* four blocks, then the caller's two turns
C14_FourBlocksThenTurns ==
    /\ proxy_pc \in {"opening", "posting"}
    /\ request.messages.items = Turns
    /\ Len(forwarded[1].body.messages.items) = 6
    /\ forwarded[1].body.messages.items[1].content = <<"persona">>
    /\ forwarded[1].body.messages.items[4].content[1] =
           "You are on an outbound call you initiated. Reason: "
    /\ forwarded[1].body.messages.items[6] = Turns[2]

\* C15: the body of every forwarded request has the fixed voice model as its
\* model and has neither the key tools nor the key tool_choice; its other
\* keys (stream, temperature) are as in the incoming body. (The messages key
\* is the one C14 is about.)
C15_ModelFixedToolsStripped ==
    proxy_pc # "idle"
    => /\ Len(forwarded) = 1
       /\ forwarded[1].body.model = VOICE_MODEL
       /\ forwarded[1].body.tools = Missing
       /\ forwarded[1].body.tool_choice = Missing
       /\ forwarded[1].body.stream = request.stream
       /\ forwarded[1].body.temperature = request.temperature

\* C15 witness: a request that names another model and has tools,
\* tool_choice, stream and temperature
C15_AnotherModelWithTools ==
    /\ proxy_pc \in {"opening", "posting"}
    /\ request.model = "gpt-4o-mini"
    /\ request.tools = "tools"
    /\ request.tool_choice = "auto"
    /\ request.stream = "true"
    /\ request.temperature = "0.7"
    /\ forwarded[1].body.model = VOICE_MODEL
    /\ forwarded[1].body.temperature = "0.7"

\* C16: the request the handler forwards carries the session header exactly
\* when the registry has a current-call entry at the time the handler runs,
\* and the header is then that entry's value; without the entry the request
\* is forwarded all the same, without the header. (NoKey: no entry, no header.)
C16_HeaderIsCurrentEntry ==
    [][Handles =>
          /\ Len(forwarded') = 1
          /\ forwarded'[1].session_header = active_sessions[Current]
      ]_vars

\* C16 witness: a request of an active Twilio call, forwarded with its key
C16_RequestWithHeader ==
    /\ proxy_pc \in {"opening", "posting"}
    /\ proxy_call = RelayCall
    /\ active_sessions[Current] = SessionKey
    /\ forwarded[1].session_header = SessionKey

\* C17 as stated: when the backend has answered a request with an error
\* status, the caller gets that status and that body, and the backend has
\* been called once for the request
C17_ErrorForwardedOnce ==
    (backend_status # 0 /\ backend_status # 200)
    => /\ Len(forwarded) = 1
       /\ reply_status = backend_status
       /\ reply_body = backend_body

\* C18: a request that is not streamed is answered with the status code and
\* the body bytes the backend returned.
C18_AnswerVerbatim ==
    (proxy_pc = "done" /\ request.stream # "true")
    => /\ reply_status = backend_status
       /\ reply_body = backend_body

\* C18 witness: the backend answered 500 with a body, and so did the proxy
C18_ErrorAnswerReturned ==
    /\ proxy_pc = "done"
    /\ request.stream = "false"
    /\ backend_status = 500
    /\ backend_body = <<123, 34, 101, 34, 58, 49, 125>>
    /\ reply_status = 500
    /\ reply_body = backend_body

\* the call-context blocks of a forwarded message list
ContextBlocks(items) ==
    {i \in 1..Len(items) :
        items[i].role = "developer"
        /\ items[i].content[1] =
               "You are on an outbound call you initiated. Reason: "}

\* the reason recorded for the call a request belongs to ("": the request
\* belongs to no call, or to a call that is inbound or has no reason)
ReasonOf(c) == IF c = 0 THEN "" ELSE call_context[c]

\* C19 as stated: the request the handler forwards has a call-context block
\* exactly when the call it belongs to was placed with a non-empty reason,
\* and the block states that reason
C19_ContextBlockIffOutbound ==
    [][Handles =>
          LET items == forwarded'[1].body.messages.items
              reason == ReasonOf(proxy_call')
          IN  /\ (ContextBlocks(items) # {}) <=> (reason # "")
              /\ \A i \in ContextBlocks(items) :
                    items[i].content = ContextBlock(reason)
      ]_vars

\* C20: no step of the proxy (taking the request, the backend's answer, a
\* line of a streamed answer, its end) changes the session registry, the
\* active call context or the stored outbound call contexts.
C20_ProxyChangesNoSharedState ==
    [][proxy_vars' # proxy_vars => shared_vars' = shared_vars]_vars

\* C20 witness: a request of an outbound call with a reason was answered, and
\* the registry entry and the call context are still there
C20_AnsweredDuringCall ==
    /\ proxy_pc = "done"
    /\ proxy_call = RelayCall
    /\ pc[RelayCall] = "streaming"
    /\ ContextBlocks(forwarded[1].body.messages.items) # {}
    /\ active_call_context = call_context[RelayCall]
    /\ active_call_context # ""
    /\ active_sessions[Current] = SessionKey

\* C21 as stated: strip_markdown applied to its own result gives that result
C21_Idempotent ==
    Len(spoken) = 2 => spoken[2] = spoken[1]

\* the query as the resolver compares it: lower case, no outer whitespace
Normal(q) == str_strip(lower(q))

\* the catalog entries by position
Entries == 1..Len(VOICE_CATALOG)

\* the fuzzy score of entry i for q: 3 for the gender keyword of the
\* entry's gender ("male" counts only when "female" is not in q), 5 for each
\* accent keyword of the entry found in q, 10 for the entry's name in q
Points(q, i) ==
    LET e == VOICE_CATALOG[i]
        gender == IF e.gender = "female" THEN in(Female, q)
                  ELSE in(Male, q) /\ ~in(Female, q)
        accents == {kw \in AccentKeywords : in(kw, lower(e.accent)) /\ in(kw, q)}
    IN  (IF gender THEN 3 ELSE 0) + 5 * Cardinality(accents)
        + (IF in(e.name, q) THEN 10 ELSE 0)

\* entry i has the highest score for q, and is the first to have it
FirstBest(q, i) ==
    \A j \in Entries :
        /\ Points(q, j) <= Points(q, i)
        /\ Points(q, j) = Points(q, i) => i <= j

\* C22: resolve_voice returns the model of the entry whose name is the
\* query; else the query when it is the model of an entry; else the model of
\* the first entry with the highest fuzzy score when that score is above
\* zero; it returns None exactly when none of the three applies.
C22_MatchingOrder ==
    resolved # << >> =>
        LET q == Normal(query)
            named == {i \in Entries : VOICE_CATALOG[i].name = q}
            ids == {i \in Entries : VOICE_CATALOG[i].model = q}
            scoring == {i \in Entries : Points(q, i) > 0}
        IN  IF named # {}
            THEN \E i \in named : resolved[1] = VOICE_CATALOG[i].model
            ELSE IF ids # {}
            THEN resolved[1] = q
            ELSE /\ (resolved[1] = NoVoice) <=> (scoring = {})
                 /\ scoring # {} =>
                       \E i \in scoring :
                           /\ FirstBest(q, i)
                           /\ resolved[1] = VOICE_CATALOG[i].model

\* C22 witness: a query that is neither a name nor a model, for which two
\* entries share the highest score; the first of them was returned
C22_TieGoesToFirst ==
    /\ resolved # << >>
    /\ \A i \in Entries : Normal(query) \notin {VOICE_CATALOG[i].name,
                                                VOICE_CATALOG[i].model}
    /\ \E i, j \in Entries :
           /\ i < j
           /\ FirstBest(Normal(query), i)
           /\ Points(Normal(query), j) = Points(Normal(query), i)
           /\ Points(Normal(query), i) = 8
           /\ resolved[1] = VOICE_CATALOG[i].model

\* C23: on this catalog, "orion" and "aura-2-orion-en" resolve to
\* "aura-2-orion-en", "male british" resolves to the model of the male
\* British entry, and "xyzzy" resolves to None.
C23_CatalogExamples ==
    resolved # << >> =>
        /\ query \in {<<"o", "r", "i", "o", "n">>,
                      <<"a", "u", "r", "a", "-", "2", "-", "o", "r", "i", "o", "n", "-", "e", "n">>}
              => resolved[1] = <<"a", "u", "r", "a", "-", "2", "-", "o", "r", "i", "o", "n", "-", "e", "n">>
        /\ query = <<"m", "a", "l", "e", " ", "b", "r", "i", "t", "i", "s", "h">>
              => \E i \in Entries :
                    /\ VOICE_CATALOG[i].gender = "male"
                    /\ VOICE_CATALOG[i].accent = <<"B", "r", "i", "t", "i", "s", "h">>
                    /\ resolved[1] = VOICE_CATALOG[i].model
        /\ query = <<"x", "y", "z", "z", "y">> => resolved[1] = NoVoice

\* C23 witness: "male british" was resolved to the model of draco
C23_MaleBritishIsDraco ==
    /\ query = <<"m", "a", "l", "e", " ", "b", "r", "i", "t", "i", "s", "h">>
    /\ resolved = <<<<"a", "u", "r", "a", "-", "2", "-", "d", "r", "a", "c", "o", "-", "e", "n">>>>

\* the prompt before truncation: the preface and the chunks of the files
\* that have content
Assembled == Preface \o joined(workspace_files, 1, TRUE)

\* the character limit in force
Limit == as_int_env(persona_env.max_chars, 12000)

\* s ends with the truncation marker
EndsWithMarker(s) ==
    /\ Len(s) >= Len(TruncationMarker)
    /\ SubSeq(s, Len(s) - Len(TruncationMarker) + 1, Len(s)) = TruncationMarker

\* a persona block is built: the persona is enabled and a file has content
HasPersona ==
    /\ persona_prompt # << >>
    /\ as_bool_env(persona_env.enabled, TRUE)
    /\ \E f \in DOMAIN workspace_files : str_strip(workspace_files[f]) # << >>

\* C24: a persona block whose assembled text is longer than the limit is at
\* most limit + length of the marker long and ends with the marker; one
\* within the limit is the assembled text, whole and with nothing appended.
C24_TruncatedToLimit ==
    HasPersona =>
        IF Len(Assembled) > Limit
        THEN /\ Len(persona_prompt[1]) <= Limit + Len(TruncationMarker)
             /\ EndsWithMarker(persona_prompt[1])
        ELSE persona_prompt[1] = Assembled

\* C24 witness: an assembled text over the limit was cut, lost trailing
\* whitespace as well, and carries the marker
C24_CutAndMarked ==
    /\ HasPersona
    /\ Len(Assembled) > Limit
    /\ Len(persona_prompt[1]) < Limit + Len(TruncationMarker)
    /\ EndsWithMarker(persona_prompt[1])

\* an audio frame of the speech agent was relayed to the telephony socket
AgentAudioRelayed(b) ==
    \E i \in 1..Len(ws_sent[b]) : ws_sent[b][i].event = "media"

\* C25 (as amended): the two directions are independent. The audio frames
\* written to the speech-agent socket are the first frames received from the
\* telephony socket, in their order, and follow the configuration message;
\* the audio relayed to the telephony socket is the speech agent's audio, in
\* the order the agent sent it, and is relayed only once the configuration
\* was written, whether or not the telephony frames have been written.
C25_EachDirectionInOrder ==
    \A b \in Calls :
        /\ \E n \in 0..Len(media_in[b]) :
               Written(b) = SubSeq(Decoded(media_in[b]), 1, n)
        /\ \A i \in 1..Len(dg_sent[b]) :
               dg_sent[b][i].binary
               => i > 1 /\ dg_sent[b][1] = text_frame(config[b])
        /\ \A i \in 1..Len(ws_sent[b]) :
               ws_sent[b][i].event = "media"
               => /\ dg_sent[b] # << >>
                  /\ agent_in[b][ws_src[b][i]].bytes
                  /\ ws_sent[b][i].payload =
                        b64encode(agent_in[b][ws_src[b][i]].data)
        /\ \A i, j \in 1..Len(ws_src[b]) : i < j => ws_src[b][i] <= ws_src[b][j]

\* C25 witness: two different frames arrived and were written in their
\* order behind the configuration, and audio of the agent was relayed
C25_BothWrittenAndRelayed ==
    \E b \in Calls :
        /\ Len(media_in[b]) = 2
        /\ dg_sent[b] = <<text_frame(config[b]),
                          binary_frame(b64decode(media_in[b][1])),
                          binary_frame(b64decode(media_in[b][2]))>>
        /\ media_in[b][1] # media_in[b][2]
        /\ AgentAudioRelayed(b)

\* C25 as stated: once two frames have arrived, audio of the speech agent
\* has been relayed only if both frames were written before
C25_FramesBeforeAgentAudio ==
    \A b \in Calls :
        (Len(media_in[b]) = 2 /\ AgentAudioRelayed(b))
        => Len(Written(b)) = 2

\* C26 as stated: a handler that received a stop event before the start
\* event is in teardown or has finished
C26_StopEndsBridge ==
    \A b \in Calls :
        early_stop[b] => pc[b] \in {"closing", "done", "failed"}

\* the status a control request is to be rejected with, 0 when it passes:
\* 403 for a client that is not local while the surface is localhost-only,
\* 503 when no control token is configured, 401 for another bearer token
Rejection(req) ==
    IF as_bool_env(control_env.localhost_only, TRUE)
       /\ req.client \notin {"localhost", "testclient", "host.docker.internal",
                              "127.0.0.1", "::1"}
    THEN 403
    ELSE IF control_env.token = "" THEN 503
    ELSE IF req.authorization # <<"Bearer ", control_env.token>> THEN 401
    ELSE 0

\* a control handler takes a step for the request req
Controls(req) ==
    \/ \E c \in CallSids, x \in Contexts : InitiateOwnerCall(req, c, x)
    \/ InitiateOwnerCallFails(req)
    \/ \E message \in SmsMessages : SendOwnerSms(req, message)
    \/ GetVoicePreference(req)
    \/ \E voice \in VoiceInputs : SetVoicePreference(req, voice)

\* C27: a control request that fails authorization is answered with 403, 503
\* or 401 (client not local, no token configured, wrong bearer token), and
\* handling it leaves the saved voice preference and the stored outbound
\* call contexts as they were and places no call and no message.
C27_RejectedBeforeStatefulWork ==
    [][\A req \in ControlRequests :
          (Rejection(req) # 0 /\ Controls(req))
          => /\ control_reply' = [status |-> Rejection(req), placed |-> "nothing"]
             /\ voice_file' = voice_file
             /\ outbound_call_contexts' = outbound_call_contexts
      ]_vars

\* C27 witness: a request with a wrong token was answered 401 while a voice
\* preference was saved and a call context was stored
C27_RejectedWithState ==
    /\ control_reply = [status |-> 401, placed |-> "nothing"]
    /\ voice_file # << >>
    /\ \E c \in CallSids : outbound_call_contexts[c] \notin {Absent, ""}

\* the configuration messages written to the speech-agent socket of slot b
ConfigsSent(b) == SelectSeq(dg_sent[b], LAMBDA e : ~e.binary)

\* C28: a successful set-voice request with query q saves resolve(q), and
\* nothing else changes what is saved; the configuration built when a call's
\* start event is processed names the voice saved at that moment, it is the
\* configuration sent, it is sent once, and a set-voice request changes
\* neither the configuration of a call that has started nor what was sent.
C28_VoiceAtNextCall ==
    [][/\ (control_reply'.status = 200 /\ control_vars' # control_vars)
             => \A req \in VoiceRequests, voice \in VoiceInputs :
                   SetVoicePreference(req, voice)
                   => read_voice_preference' = resolve_voice(voice)
       /\ voice_file' # voice_file
             => /\ \E req \in VoiceRequests, voice \in VoiceInputs :
                      SetVoicePreference(req, voice)
                      /\ control_reply'.status = 200
                /\ config' = config
                /\ dg_sent' = dg_sent
       /\ \A b \in Calls :
             /\ (pc[b] = "awaiting" /\ pc'[b] = "config")
                   => config'[b].speak = read_voice_preference
             /\ (pc[b] \in {"config", "streaming"} /\ pc'[b] # "connecting")
                   => config'[b] = config[b]
             /\ ConfigsSent(b)' \in {ConfigsSent(b), <<text_frame(config[b])>>}
                \/ pc'[b] = "connecting"
      ]_vars

\* C28 witness: "male british" was saved as draco's model, a call started
\* later and its configuration, sent to the speech agent, names that model
C28_NextCallSpeaksDraco ==
    \E b \in Calls :
        /\ pc[b] = "streaming"
        /\ voice_file = write_voice_preference(resolve_voice(
                <<"m", "a", "l", "e", " ", "b", "r", "i", "t", "i", "s", "h">>))
        /\ ConfigsSent(b) = <<text_frame(config[b])>>
        /\ config[b].speak # DEEPGRAM_TTS_MODEL
        /\ config[b].speak = read_voice_preference

\* the position of a handler in the order of the bridge's states: Connecting,
\* AwaitingStart (which ends with the start event being processed), Streaming,
\* Closing, terminal
Rank(p) ==
    CASE p = "idle" -> 0
      [] p = "connecting" -> 1
      [] p \in {"awaiting", "config"} -> 2
      [] p = "streaming" -> 3
      [] p = "closing" -> 4
      [] p \in {"done", "failed"} -> 5

\* a task that was created
Exists(t) == t # "none"

\* a task that has ended or was cancelled
Over(t) == t \in {"ended", "cancelled"}

\* C29: a handler only moves forward in the order Connecting, AwaitingStart,
\* Streaming, Closing, terminal, and only a new connection starts again at
\* Connecting; the forwarding tasks exist from Streaming on only; a step that
\* leaves the handler in Streaming (a further start event among them)
\* changes neither the session key nor the registry nor the configuration,
\* sends no configuration and starts no task again.
C29_ForwardOnly ==
    [][\A b \in Calls :
          /\ IF pc'[b] = "connecting"
             THEN pc[b] \in {"idle", "connecting", "done", "failed"}
             ELSE Rank(pc'[b]) >= Rank(pc[b])
          /\ (Exists(sender_task'[b]) \/ Exists(receiver_task'[b]))
                => Rank(pc'[b]) >= 3
          /\ (pc[b] = "streaming" /\ pc'[b] = "streaming")
                => /\ session_key'[b] = session_key[b]
                   /\ config'[b] = config[b]
                   /\ active_sessions' = active_sessions
                   /\ ConfigsSent(b)' = ConfigsSent(b)
                   /\ Over(sender_task[b]) => sender_task'[b] = sender_task[b]
                   /\ Over(receiver_task[b])
                         => receiver_task'[b] = receiver_task[b]
                   /\ prewarm_task[b] # "running" => prewarm_task'[b] # "running"
      ]_vars

\* C29 witness: a handler has gone through Streaming, where a forwarding task
\* ended by itself, and through teardown to its end
C29_ThroughAllStates ==
    \E b \in Calls :
        /\ pc[b] = "done"
        /\ deepgram_ws[b] = "closed"
        /\ sender_task[b] = "ended"
        /\ receiver_task[b] = "cancelled"
        /\ Len(ConfigsSent(b)) = 1

\* the registry holds an entry of the handler's call under the sentinel key
\* and under a deployment key
RegisteredUnderBothKeys(b) ==
    /\ session_key[b] # NoKey
    /\ active_sessions[Current] = session_key[b]
    /\ \E host \in Hosts : active_sessions[PublicUrl(host)] = session_key[b]

\* C30: in the step that writes the configuration to the speech-agent socket
\* the call is already registered under both keys, nothing was written to
\* the socket before, the configuration is what is written, and no
\* forwarding task exists yet; at most one configuration is ever written
\* for a call.
C30_RegisteredThenConfigured ==
    [][\A b \in Calls :
          /\ Len(ConfigsSent(b)') <= 1
          /\ (pc[b] = "config" /\ ConfigsSent(b)' # ConfigsSent(b))
                => /\ RegisteredUnderBothKeys(b)
                   /\ dg_sent[b] = << >>
                   /\ dg_sent'[b] = <<text_frame(config[b])>>
                   /\ ~ Exists(sender_task[b])
                   /\ ~ Exists(receiver_task[b])
      ]_vars

\* the registry holds the entries of some call under the sentinel key and
\* under a deployment key
BothKeys ==
    /\ active_sessions[Current] # NoKey
    /\ \E host \in Hosts : active_sessions[PublicUrl(host)] = active_sessions[Current]

\* the registry holds no entry
NoKeys == \A k \in RegistryKeys : active_sessions[k] = NoKey

\* C31: what any task finds in the registry between two steps is whole:
\* the sentinel key and a deployment key with the same session key, or, when
\* the sentinel key is not set, no entry at all. A step that changes the
\* registry is one registry operation: the start of a call, which leaves
\* both of its keys set, or the removal at the end of a handler, which
\* leaves none of the call's entries; the proxy's lookup changes nothing.
C31_RegistryNeverHalfWritten ==
    /\ [](BothKeys \/ NoKeys)
    /\ [][active_sessions' # active_sessions
            => \E b \in Calls :
                  \/ /\ pc[b] = "awaiting" /\ pc'[b] = "config"
                     /\ RegisteredUnderBothKeys(b)'
                  \/ /\ pc[b] # "done" /\ pc'[b] = "done"
                     /\ \A k \in RegistryKeys :
                           active_sessions'[k] # session_key[b]
                     /\ active_sessions'[Current] = NoKey
        ]_vars

\* C31 witness: one call has registered its two keys and waits for its
\* configuration to be written while the handler of another call is
\* suspended in its first loop
C31_ObservedWhileRegistered ==
    \E b, c \in Calls :
        /\ b # c
        /\ pc[b] = "config"
        /\ RegisteredUnderBothKeys(b)
        /\ pc[c] = "awaiting"

\* the warm-up task of slot b ends in this step
WarmupEnds(b) == prewarm_task[b] = "running" /\ prewarm_task'[b] = "finished"

\* C32: a handler whose configuration is ready and whose speech-agent
\* connection is open can write the configuration and go on to Streaming
\* whatever its warm-up task is doing (running, ended, never started); the
\* step in which the warm-up ends, with success, failure or timeout, moves
\* no handler, stops no forwarding task, closes no socket and leaves the
\* registry and the call contexts as they are.
C32_WarmupNeverBlocks ==
    /\ [](\A b \in Calls :
             (pc[b] = "config" /\ deepgram_ws[b] = "open")
             => ENABLED ConfigSent(b))
    /\ [][\A b \in Calls :
             WarmupEnds(b)
             => /\ pc' = pc
                /\ <<ws, deepgram_ws>>' = <<ws, deepgram_ws>>
                /\ <<sender_task, receiver_task>>' = <<sender_task, receiver_task>>
                /\ shared_vars' = shared_vars
        ]_vars

\* C32 witness: the warm-up of a call failed before the configuration was
\* written; the call is in Streaming, registered, and audio has been written
C32_StreamingAfterFailedWarmup ==
    \E b \in Calls :
        /\ warmup[b] = "failed"
        /\ pc[b] = "streaming"
        /\ RegisteredUnderBothKeys(b)
        /\ Len(Written(b)) = MaxMedia

\* C33 as stated: every media event on a call's telephony socket carries
\* the stream identifier of the call's start event, which is known
C33_MediaEventsTagged ==
    \A b \in Calls : \A i \in 1..Len(ws_sent[b]) :
        ws_sent[b][i].event = "media"
        => /\ stream_tag(b) # None
           /\ "streamSid" \in DOMAIN ws_sent[b][i]
           /\ ws_sent[b][i].streamSid = stream_tag(b)

\* the places of the media events among what was sent to the telephony
\* socket of slot b
MediaSent(b) == {i \in 1..Len(ws_sent[b]) : ws_sent[b][i].event = "media"}

\* C34: every media event on the telephony socket comes from one audio
\* message of the speech agent and its payload decodes to that message's
\* bytes; the media events follow each other in the order in which their
\* messages were received, and no message has two of them.
C34_AgentAudioInOrder ==
    \A b \in Calls :
        /\ \A i \in MediaSent(b) :
              /\ ws_src[b][i] \in 1..Len(agent_in[b])
              /\ agent_in[b][ws_src[b][i]].bytes
              /\ b64decode(ws_sent[b][i].payload) = agent_in[b][ws_src[b][i]].data
        /\ \A i, j \in MediaSent(b) : i < j => ws_src[b][i] < ws_src[b][j]

\* C34 witness: the speech agent sent two different audio frames and both
\* are on the telephony socket, in that order
C34_TwoFramesRelayedInOrder ==
    \E b \in Calls :
        /\ Len(agent_in[b]) = 2
        /\ agent_in[b][1].bytes /\ agent_in[b][2].bytes
        /\ agent_in[b][1].data # agent_in[b][2].data
        /\ MediaSent(b) = {1, 2}
        /\ ws_src[b] = <<1, 2>>

\* C35: the step in which the receiving task takes an error event or an
\* event of a kind it does not know leaves the task waiting for the next
\* message, sends nothing to the telephony socket and prepares nothing to
\* send, and moves neither the handler nor the other task nor a socket.
C35_OtherEventsChangeNothing ==
    [][\A b \in Calls : \A m \in AgentMessages :
          (Other(m) /\ ReceiverGets(b, m))
          => /\ receiver_task'[b] = "waiting"
             /\ <<ws_sent, media_msg, agent_in>>' = <<ws_sent, media_msg, agent_in>>
             /\ <<pc, ws, deepgram_ws, sender_task>>' = <<pc, ws, deepgram_ws, sender_task>>
             /\ shared_vars' = shared_vars
      ]_vars

\* C35 witness: such an event came first; the barge-in event and the audio
\* frame that the speech agent sent after it were both relayed
C35_HandledAfterOtherEvent ==
    \E b \in Calls :
        /\ agent_other[b] = 0
        /\ pc[b] = "streaming"
        /\ Len(agent_in[b]) = 2
        /\ IsUserStartedSpeaking(agent_in[b][1])
        /\ agent_in[b][2].bytes
        /\ ws_src[b] = <<1, 2>>
        /\ MediaSent(b) = {2}

C37_WrittenIsPrefixOfReceived ==
    /\ [](\A b \in Calls :
             /\ Len(Written(b)) <= Len(media_in[b])
             /\ \A i \in 1..Len(Written(b)) :
                   Written(b)[i] = b64decode(media_in[b][i]))
    /\ [][\A b \in Calls :
             (dg_sent'[b] # dg_sent[b] /\ pc'[b] # "connecting")
             => \/ /\ dg_sent[b] = << >>
                   /\ dg_sent'[b] = <<text_frame(config[b])>>
                \/ /\ Len(Written(b)) < Len(media_in[b])
                   /\ dg_sent'[b] =
                         Append(dg_sent[b],
                                binary_frame(b64decode(
                                    media_in[b][Len(Written(b)) + 1])))
        ]_vars

\* C37 witness: a frame came before the start event and two frames after
\* it, the first of which is another frame; that one is written, the second
\* is not yet
C37_FirstOfTwoWritten ==
    \E b \in Calls :
        /\ early_media[b] # << >>
        /\ Len(media_in[b]) = 2
        /\ media_in[b][1] # early_media[b][1]
        /\ Written(b) = <<b64decode(media_in[b][1])>>
        /\ audio_queue[b] = <<b64decode(media_in[b][2])>>

\* C38: the step in which a handler takes a media event in its first loop
\* puts nothing in the queue and writes nothing; until the start event has
\* been handled the queue is empty and nothing was written to the
\* speech-agent socket; and at every later moment the frames in the queue,
\* in flight and written are as many as the media events with a payload
\* that were received in Streaming, so that none of them dates from before
\* the start event.
C38_EarlyMediaDiscarded ==
    /\ [](\A b \in Calls :
             /\ pc[b] \in {"connecting", "awaiting"}
                   => audio_queue[b] = << >> /\ dg_sent[b] = << >>
             /\ Len(audio_queue[b]) + Len(InFlight(b)) + Len(Written(b))
                   = Len(media_in[b]))
    /\ [][\A b \in Calls : \A m \in Messages(provider[b]) :
             AwaitingStartMedia(b, m)
             => <<pc, up_vars, task_vars>>' = <<pc, up_vars, task_vars>>
        ]_vars

\* C38 witness: a frame came before the start event; the handler is in
\* Streaming, its forwarding task waits on an empty queue, and only the
\* configuration was written to the speech-agent socket
C38_NothingQueuedInStreaming ==
    \E b \in Calls :
        /\ Len(early_media[b]) = MaxEarly
        /\ b64decode(early_media[b][1]) \in Frames
        /\ pc[b] = "streaming"
        /\ sender_task[b] = "waiting"
        /\ audio_queue[b] = << >>
        /\ dg_sent[b] = <<text_frame(config[b])>>

\* teardown of the handler of slot b has begun
InTeardown(b) == pc[b] \in {"closing", "done", "failed"}

\* C39: a step that begins the teardown of a call, and every step taken
\* while the call is in teardown or over, adds nothing to what was sent to
\* the call's telephony socket and nothing to what was written to its
\* speech-agent socket; and from the beginning of teardown on neither
\* forwarding task can take a step.
C39_SilentOnceTeardownBegan ==
    /\ [](\A b \in Calls :
             InTeardown(b)
             => ~Running(sender_task[b]) /\ ~Running(receiver_task[b]))
    /\ [][\A b \in Calls :
             InTeardown(b)'
             => ws_sent'[b] = ws_sent[b] /\ dg_sent'[b] = dg_sent[b]
        ]_vars

\* C39 witness: teardown came while one frame was being written, another
\* was queued and a media event was being sent; the handler has finished
\* and none of the three went out
C39_CancelledInMidSend ==
    \E b \in Calls :
        /\ pc[b] = "done"
        /\ chunk[b] # NoChunk
        /\ audio_queue[b] # << >>
        /\ media_msg[b] # NoMessage
        /\ Written(b) = << >>
        /\ ws_sent[b] = << >>

\* C40: a Twilio start event whose call identifier has a recorded context
\* gives the handler that context and removes it, and no other; a start
\* event whose call identifier has none (never recorded, or consumed by an
\* earlier start) gives the handler the empty context, whatever is recorded
\* for other identifiers, and removes nothing; and nothing but such a start
\* removes a recorded context.
C40_ContextConsumedOnce ==
    [][/\ \A b \in Calls : \A m \in TwilioMessages : \A h \in Hosts :
             (m.event = "start" /\ TwilioStart(b, m, h))
             => IF m.callSid \in CallSids
                   /\ outbound_call_contexts[m.callSid] # Absent
                THEN /\ call_context'[b] = outbound_call_contexts[m.callSid]
                     /\ active_call_context' = call_context'[b]
                     /\ outbound_call_contexts' =
                           [outbound_call_contexts EXCEPT ![m.callSid] = Absent]
                ELSE /\ call_context'[b] = ""
                     /\ active_call_context' = ""
                     /\ outbound_call_contexts' = outbound_call_contexts
       /\ \A c \in CallSids :
             (outbound_call_contexts[c] # Absent
              /\ outbound_call_contexts'[c] = Absent)
             => \E b \in Calls :
                   /\ provider[b] = "twilio"
                   /\ pc[b] = "awaiting" /\ pc'[b] = "config"
                   /\ call_context'[b] = outbound_call_contexts[c]
      ]_vars

\* C40 witness: the context recorded for a call was consumed by the start of
\* one handler, which is in Streaming; the handler whose start event came
\* after it has no context, and no context is recorded
C40_SecondStartWithoutContext ==
    \E b, c \in Calls :
        /\ b # c
        /\ pc[b] = "streaming" /\ provider[b] = "twilio"
        /\ call_context[b] \notin {"", Absent}
        /\ pc[c] = "streaming" /\ provider[c] = "twilio"
        /\ last_started = c
        /\ call_context[c] = ""
        /\ active_call_context = ""
        /\ \A x \in CallSids : outbound_call_contexts[x] = Absent

=============================================================================
